---- MODULE Spec2Model ----
(***************************************************************************)
(* Flat BOM generator (flat_bom_generator/bom_traversal.py and             *)
(* categorization.py): get_flat_bom = traverse_bom -> get_leaf_parts_only  *)
(* -> deduplicate_and_sum, run by one or two callers over a shared part /  *)
(* BomItem database.                                                       *)
(*                                                                         *)
(* Conventions: Python None is NoneVal (-1) wherever the value is a number *)
(* (ids, max_depth, cut_length; all real values are >= 0).  Quantities are *)
(* floats in the source and small naturals here.  Strings that the code    *)
(* parses or compares (notes, units, IPNs) are sequences of one-character  *)
(* strings.                                                                *)
(***************************************************************************)
EXTENDS Integers, Sequences, FiniteSets, TLC

\* ------------------------------------------------------------------ bounds
\* Largest max_depth argument a caller passes (None is always offered too).
MaxDepthArg == 2
\* Largest number of BomItem rows in the database.
MaxBomRows == 3
\* Largest number of BomItem rows in the database of a call on a root that
\* is not an assembly.
MaxLeafRootRows == 1

NoneVal == -1

\* ------------------------------------------------------------ characters
Digits == <<"0", "1", "2", "3", "4", "5", "6", "7", "8", "9">>

\* Characters in code-point order, for string comparison.
Alphabet == <<" ", ",", "0", "1", "2", "3", "4", "5", "6", "7", "8", "9",
              "A", "B", "C", "F", "J", "M", "P", "R", "T",
              "c", "e", "h", "i", "m", "n", "s">>

Ord(ch) == CHOOSE i \in 1..Len(Alphabet) : Alphabet[i] = ch

IsDigit(ch) == \E i \in 1..10 : Digits[i] = ch

DigitVal(ch) == (CHOOSE i \in 1..10 : Digits[i] = ch) - 1

IsSpace(ch) == ch = " "

\* str.lower() on the letters of the alphabet.
Lower(ch) ==
    CASE ch = "A" -> "a" [] ch = "B" -> "b" [] ch = "C" -> "c"
      [] ch = "F" -> "f" [] ch = "J" -> "j" [] ch = "M" -> "m"
      [] ch = "P" -> "p" [] ch = "R" -> "r" [] ch = "T" -> "t"
      [] OTHER -> ch

LowerStr(s) == [i \in 1..Len(s) |-> Lower(s[i])]

\* str.strip(): drop leading and trailing blanks.
RECURSIVE LStrip(_)
LStrip(s) == IF s # <<>> /\ IsSpace(s[1]) THEN LStrip(Tail(s)) ELSE s

RECURSIVE RStrip(_)
RStrip(s) ==
    IF s # <<>> /\ IsSpace(s[Len(s)]) THEN RStrip(SubSeq(s, 1, Len(s) - 1)) ELSE s

Strip(s) == RStrip(LStrip(s))

\* s < t under Python's string comparison.
RECURSIVE StrLess(_, _)
StrLess(s, t) ==
    IF t = <<>> THEN FALSE
    ELSE IF s = <<>> THEN TRUE
    ELSE IF s[1] = t[1] THEN StrLess(Tail(s), Tail(t))
    ELSE Ord(s[1]) < Ord(t[1])

StrLeq(s, t) == s = t \/ StrLess(s, t)

\* ------------------------------------------------- categorization.py
\* Position of the first digit of s at or after i, 0 when there is none.
RECURSIVE FirstDigitFrom(_, _)
FirstDigitFrom(s, i) ==
    IF i > Len(s) THEN 0
    ELSE IF IsDigit(s[i]) THEN i
    ELSE FirstDigitFrom(s, i + 1)

\* Last position of the digit run of s that starts at i.
RECURSIVE DigitRunEnd(_, _)
DigitRunEnd(s, i) ==
    IF i + 1 <= Len(s) /\ IsDigit(s[i + 1]) THEN DigitRunEnd(s, i + 1) ELSE i

\* Value of the decimal numeral s[i..j].
RECURSIVE NumeralValue(_, _, _)
NumeralValue(s, i, j) ==
    IF j < i THEN 0 ELSE NumeralValue(s, i, j - 1) * 10 + DigitVal(s[j])

\* _extract_length_from_notes: the first number found in the notes, or None.
\* (pattern \d+\.?\d*|\.\d+ over notes without a decimal point)
ExtractLengthFromNotes(notes) ==
    IF notes = <<>> THEN NoneVal
    ELSE LET s == Strip(notes)
             i == FirstDigitFrom(s, 1)
         IN  IF i = 0 THEN NoneVal ELSE NumeralValue(s, i, DigitRunEnd(s, i))

\* Unit tokens of the pattern, in the order of its alternatives.
UnitTokens == <<
    <<"m", "i", "l", "l", "i", "m", "e", "t", "e", "r", "s">>,
    <<"m", "i", "l", "l", "i", "m", "e", "t", "e", "r">>,
    <<"c", "e", "n", "t", "i", "m", "e", "t", "e", "r", "s">>,
    <<"c", "e", "n", "t", "i", "m", "e", "t", "e", "r">>,
    <<"m", "e", "t", "e", "r", "s">>, <<"m", "e", "t", "e", "r">>,
    <<"i", "n", "c", "h", "e", "s">>, <<"i", "n", "c", "h", "e">>,
    <<"f", "e", "e", "t">>, <<"m", "m">>, <<"c", "m">>, <<"i", "n">>,
    <<"f", "t">>, <<"m">> >>

\* position after the blanks that start at i
RECURSIVE SkipSpaces(_, _)
SkipSpaces(s, i) ==
    IF i <= Len(s) /\ IsSpace(s[i]) THEN SkipSpaces(s, i + 1) ELSE i

HasTokenAt(s, i, tok) ==
    /\ i + Len(tok) - 1 <= Len(s)
    /\ \A k \in 1..Len(tok) : Lower(s[i + k - 1]) = tok[k]

\* _extract_length_with_unit: the first number and the unit token right
\* after it (None, here the empty string, when no unit follows).
ExtractLengthWithUnit(notes) ==
    IF notes = <<>> THEN [value |-> NoneVal, unit |-> <<>>]
    ELSE LET s == Strip(notes)
             i == FirstDigitFrom(s, 1)
         IN  IF i = 0 THEN [value |-> NoneVal, unit |-> <<>>]
             ELSE LET j == DigitRunEnd(s, i)
                      u == SkipSpaces(s, j + 1)
                      hits == {t \in 1..Len(UnitTokens) : HasTokenAt(s, u, UnitTokens[t])}
                  IN  [value |-> NumeralValue(s, i, j),
                       unit  |-> IF hits = {} THEN <<>>
                                 ELSE UnitTokens[CHOOSE t \in hits : \A t2 \in hits : t <= t2]]

\* _check_unit_mismatch: TRUE when a warning message is returned.
CheckUnitMismatch(notes, part_unit) ==
    IF notes = <<>> \/ part_unit = <<>> THEN FALSE
    ELSE LET extracted == ExtractLengthWithUnit(notes)
         IN  extracted.unit # <<>> /\ extracted.unit # LowerStr(part_unit)

\* dict.get(kind, []) on category_mappings.
MappingGet(category_mappings, kind) ==
    IF kind \in DOMAIN category_mappings THEN category_mappings[kind] ELSE {}

\* Variant: a part of the cut-to-length set is CtL whatever its note says.
CategorizePartNoNoteCheck(is_assembly, is_top_level, default_supplier_id, internal_supplier_ids, part_category_id, category_mappings, bom_item_notes) ==
    LET has_default_supplier == default_supplier_id # NoneVal
        has_internal_supplier ==
            has_default_supplier /\ default_supplier_id \in internal_supplier_ids
        has_category == part_category_id # NoneVal /\ part_category_id # 0
        fab == MappingGet(category_mappings, "fabrication")
        ctl == MappingGet(category_mappings, "cut_to_length")
        coml == MappingGet(category_mappings, "commercial")
    IN  IF is_top_level THEN "TLA"
        ELSE IF is_assembly /\ fab # {} /\ has_category
                /\ part_category_id \in fab /\ has_internal_supplier
             THEN "Internal Fab"
        ELSE IF is_assembly /\ has_default_supplier /\ ~has_internal_supplier
             THEN "Purchased Assy"
        ELSE IF ~is_assembly /\ has_category /\ DOMAIN category_mappings # {}
                /\ ctl # {} /\ part_category_id \in ctl
             THEN "CtL"
        ELSE IF ~is_assembly /\ has_category /\ DOMAIN category_mappings # {}
                /\ coml # {} /\ part_category_id \in coml
             THEN "Coml"
        ELSE IF ~is_assembly /\ has_category /\ DOMAIN category_mappings # {}
                /\ fab # {} /\ part_category_id \in fab
             THEN "Fab"
        ELSE IF is_assembly THEN "Assy"
        ELSE "Other"

\* categorize_part
CategorizePart(is_assembly, is_top_level, default_supplier_id, internal_supplier_ids, part_category_id, category_mappings, bom_item_notes) ==
    LET has_default_supplier == default_supplier_id # NoneVal
        has_internal_supplier ==
            has_default_supplier /\ default_supplier_id \in internal_supplier_ids
        has_category == part_category_id # NoneVal /\ part_category_id # 0
        fab == MappingGet(category_mappings, "fabrication")
        ctl == MappingGet(category_mappings, "cut_to_length")
        coml == MappingGet(category_mappings, "commercial")
    IN  IF is_top_level THEN "TLA"
        ELSE IF is_assembly /\ fab # {} /\ has_category
                /\ part_category_id \in fab /\ has_internal_supplier
             THEN "Internal Fab"
        ELSE IF is_assembly /\ has_default_supplier /\ ~has_internal_supplier
             THEN "Purchased Assy"
        ELSE IF ~is_assembly /\ has_category /\ DOMAIN category_mappings # {}
                /\ ctl # {} /\ part_category_id \in ctl
             THEN IF bom_item_notes # <<>>
                     /\ ExtractLengthFromNotes(bom_item_notes) # NoneVal
                  THEN "CtL" ELSE "Fab"
        ELSE IF ~is_assembly /\ has_category /\ DOMAIN category_mappings # {}
                /\ coml # {} /\ part_category_id \in coml
             THEN "Coml"
        ELSE IF ~is_assembly /\ has_category /\ DOMAIN category_mappings # {}
                /\ fab # {} /\ part_category_id \in fab
             THEN "Fab"
        ELSE IF is_assembly THEN "Assy"
        ELSE "Other"

\* ------------------------------------------------------------- database
\* Company ids and category ids of the fixture.
InternalCompany == 10
ExternalCompany == 20
FabCategory == 5
ComlCategory == 8
CtlCategory == 20

\* Part rows (part.models.Part): pk |-> the fields the plugin reads.
PartTable ==
    [pk \in 1..8 |->
        CASE pk = 1 -> [IPN |-> <<"A", "1">>, units |-> <<>>, assembly |-> TRUE,
                        supplier |-> NoneVal, category |-> NoneVal]
          [] pk = 2 -> [IPN |-> <<"B", "1">>, units |-> <<>>, assembly |-> TRUE,
                        supplier |-> NoneVal, category |-> NoneVal]
          [] pk = 3 -> [IPN |-> <<"C", "1">>, units |-> <<>>, assembly |-> TRUE,
                        supplier |-> NoneVal, category |-> NoneVal]
          [] pk = 4 -> [IPN |-> <<"F", "1">>, units |-> <<>>, assembly |-> TRUE,
                        supplier |-> InternalCompany, category |-> FabCategory]
          [] pk = 5 -> [IPN |-> <<"P", "1">>, units |-> <<>>, assembly |-> TRUE,
                        supplier |-> ExternalCompany, category |-> NoneVal]
          [] pk = 6 -> [IPN |-> <<"B", "0">>, units |-> <<"m", "m">>, assembly |-> FALSE,
                        supplier |-> NoneVal, category |-> ComlCategory]
          [] pk = 7 -> [IPN |-> <<"A", "9">>, units |-> <<"m", "m">>, assembly |-> FALSE,
                        supplier |-> NoneVal, category |-> CtlCategory]
          [] OTHER  -> [IPN |-> <<>>, units |-> <<>>, assembly |-> FALSE,
                        supplier |-> NoneVal, category |-> NoneVal]]

PartIds == DOMAIN PartTable

\* A primary key no part has.
MissingPartId == 99999

BomRow(part, sub_part, quantity, reference, note) ==
    [part |-> part, sub_part |-> sub_part, quantity |-> quantity,
     reference |-> reference, note |-> note]

\* The BomItem rows a database may hold, by primary key.
BomItemUniverse == <<
    BomRow(1, 2, 2, <<>>, <<>>),
    BomRow(1, 3, 3, <<>>, <<>>),
    BomRow(2, 3, 1, <<>>, <<>>),
    BomRow(3, 1, 1, <<>>, <<>>),
    BomRow(3, 2, 1, <<>>, <<>>),
    BomRow(2, 6, 4, <<"J", "1">>, <<"J", "1">>),
    BomRow(3, 6, 2, <<"J", "5">>, <<"J", "5">>),
    BomRow(1, 6, 3, <<"J", "5">>, <<"J", "5">>),
    BomRow(1, 4, 3, <<>>, <<>>),
    BomRow(4, 6, 5, <<>>, <<>>),
    BomRow(4, 7, 2, <<>>, <<"3", "5">>),
    BomRow(1, 7, 2, <<>>, <<"5", "0", "m", "m">>),
    BomRow(1, 7, 1, <<>>, <<>>),
    BomRow(1, 7, 1, <<>>, <<"3", " ", "i", "n">>),
    BomRow(1, 5, 1, <<>>, <<>>),
    BomRow(5, 6, 3, <<"J", "9">>, <<>>),
    BomRow(3, 8, 1, <<>>, <<>>),
    BomRow(5, 2, 2, <<>>, <<>>),
    BomRow(3, 4, 2, <<>>, <<>>),
    BomRow(4, 6, 2, <<>>, <<>>) >>

BomPks == 1..Len(BomItemUniverse)

\* Plugin settings handed to get_flat_bom by the view.
InternalSupplierIds == {InternalCompany}

CategoryMappings ==
    [k \in {"fabrication", "commercial", "cut_to_length"} |->
        CASE k = "fabrication" -> {FabCategory}
          [] k = "commercial" -> {ComlCategory}
          [] OTHER -> {CtlCategory}]

Calls == {1, 2}

VARIABLES
    db,                 \* primary keys of the BomItem rows in the database
    bom_query_fails,    \* the BomItem query of get_bom_items raises right now
    response,           \* the HTTP response of the view, status 0 before
    fa_ifab_units,      \* deduplicate_and_sum.ifab_units (function attribute)
    fa_enable,          \* deduplicate_and_sum.enable_ifab_cuts
    fa_ctl_warnings,    \* deduplicate_and_sum.ctl_warnings
    pc,                 \* per call: position in get_flat_bom
    args,               \* per call: arguments of get_flat_bom
    stack,              \* per call: traverse_bom activation records
    nodes,              \* per call: tree nodes built so far, in creation order
    bom_tree,           \* per call: index of the returned root node, 0 before
    imp_counter,        \* per call: imp_counter["count"]
    depth_tracker,      \* per call: depth_tracker["max_level"]
    error,              \* per call: the exception raised, if any
    leaf_parts,         \* per call: result of get_leaf_parts_only
    dedup,              \* per call: locals of deduplicate_and_sum
    result              \* per call: the tuple get_flat_bom returned, <<>> before

vars == <<db, bom_query_fails, response, fa_ifab_units, fa_enable, fa_ctl_warnings, pc, args, stack, nodes,
          bom_tree, imp_counter, depth_tracker, error, leaf_parts, dedup, result>>

globals == <<fa_ifab_units, fa_enable, fa_ctl_warnings>>

NoError == [kind |-> "none", part_id |-> NoneVal, level |-> NoneVal]

\* No response sent yet.
NoResponse == [status |-> 0, detail |-> "none"]

\* A function attribute of deduplicate_and_sum: has is hasattr().
UnsetAttr(default) == [has |-> FALSE, val |-> default]

SetAttr(value) == [has |-> TRUE, val |-> value]

\* ------------------------------------------------------------ arguments
DepthArgs == {NoneVal} \cup 0..MaxDepthArg

UnitSets == {{}, {<<"m", "m">>}}

ArgSet ==
    [part_id : {1, MissingPartId}, max_depth : DepthArgs,
     expand_purchased_assemblies : BOOLEAN, enable_ifab_cuts : BOOLEAN,
     ifab_units : UnitSets]

\* Calls whose root is a part that is not an assembly (part 6); they run on
\* databases of at most MaxLeafRootRows rows, which they never read.
LeafRootArgSet ==
    [part_id : {6}, max_depth : DepthArgs,
     expand_purchased_assemblies : BOOLEAN, enable_ifab_cuts : BOOLEAN,
     ifab_units : UnitSets]

IdleArgs ==
    [part_id |-> MissingPartId, max_depth |-> NoneVal,
     expand_purchased_assemblies |-> FALSE, enable_ifab_cuts |-> FALSE,
     ifab_units |-> {}]

Databases == {S \in SUBSET BomPks : Cardinality(S) <= MaxBomRows}

\* ------------------------------------------------------------ helpers
Max(a, b) == IF a >= b THEN a ELSE b

RECURSIVE SortedSeq(_)
SortedSeq(S) ==
    IF S = {} THEN <<>>
    ELSE LET m == CHOOSE x \in S : \A y \in S : x <= y
         IN  <<m>> \o SortedSeq(S \ {m})

\* Variant: the rows are returned although the query failed.
GetBomItemsDespiteFailure(part_id) ==
    SortedSeq({pk \in db : BomItemUniverse[pk].part = part_id})

\* get_bom_items: the BomItem rows of the part, as primary keys; when the
\* query raises, the exception is logged and [] returned.
GetBomItems(part_id) ==
    IF bom_query_fails THEN <<>>
    ELSE SortedSeq({pk \in db : BomItemUniverse[pk].part = part_id})

\* Variant: one visited set shared by all calls (no copy).
VisitedShared(own, callee) == callee

\* What the caller of traverse_bom sees of the visited set it passed after
\* the call returns: the callee worked on visited.copy(), so nothing changes.
VisitedAfterCall(own, callee) == own

\* An activation record of traverse_bom at its entry (fetched: get_bom_items
\* was called for the part).
Frame(part_id, level, parent_qty, parent_ipn, visited, notes, bom_pk) ==
    [part_id |-> part_id, level |-> level, parent_qty |-> parent_qty,
     parent_ipn |-> parent_ipn, visited |-> visited, bom_item_notes |-> notes,
     bom_pk |-> bom_pk, phase |-> "enter", node |-> 0, pending |-> <<>>,
     max_depth_hit |-> FALSE, fetched |-> FALSE]

Top(c) == stack[c][Len(stack[c])]

\* Variant: the error reports the level of the parent.
CycleErrorParentLevel(part_id, level) ==
    [kind |-> "ValueError", part_id |-> part_id, level |-> level - 1]

\* raise ValueError(... Part ID: {part_id}) at level {level} ...)
CycleError(part_id, level) ==
    [kind |-> "ValueError", part_id |-> part_id, level |-> level]

\* Variant: level > max_depth.
MaxDepthHitLate(max_depth, level) == max_depth # NoneVal /\ level > max_depth

\* max_depth is not None and level >= max_depth
MaxDepthHit(max_depth, level) == max_depth # NoneVal /\ level >= max_depth

\* Variant: the flag is set on every node the limit stops.
MaxDepthExceededAnyNode(max_depth_hit, is_assembly) == max_depth_hit

\* if max_depth_hit and is_assembly: node["max_depth_exceeded"] = True
MaxDepthExceeded(max_depth_hit, is_assembly) == max_depth_hit /\ is_assembly

\* Variant: the parent's quantity is left out.
ChildQtyOnly(parent_qty, child_qty) == child_qty

\* child_cumulative_qty = parent_qty * child_qty
ChildCumulativeQty(parent_qty, child_qty) == parent_qty * child_qty

\* Variant: the three-element tuple of the docstring.
NotFoundResultThree == << <<>>, 0, {} >>

\* return [], 0, [], 0 after Part.DoesNotExist
NotFoundResult == << <<>>, 0, {}, 0 >>

\* Variant: the three-element tuple of the docstring.
ErrorResultThree == << <<>>, 0, {} >>

\* return [], 0, [], 0 after any other exception
ErrorResult == << <<>>, 0, {}, 0 >>

\* Variant: the tracker keeps the level of the node visited last.
TrackLastLevel(max_level, level) == level

\* depth_tracker["max_level"] = max(depth_tracker.get("max_level", 0), level)
TrackMaxLevel(max_level, level) == Max(max_level, level)

\* Variant: a counter kept by the module, carried from the call before.
CarriedImpCounter(c) == IF c = 1 THEN 0 ELSE imp_counter[1]

\* imp_counter = {"count": 0}, made anew by every call
NewImpCounter(c) == 0

\* --------------------------------------------------------- get_flat_bom
\* Part.objects...get(pk=part_id) succeeds; traverse_bom is called on it.
FetchPart(c) ==
    /\ pc[c] = "start"
    /\ args[c].part_id \in PartIds
    /\ imp_counter' = [imp_counter EXCEPT ![c] = NewImpCounter(c)]
    /\ depth_tracker' = [depth_tracker EXCEPT ![c] = 0]
    /\ stack' = [stack EXCEPT ![c] =
                    <<Frame(args[c].part_id, 0, 1, <<>>, {}, <<>>, 0)>>]
    /\ pc' = [pc EXCEPT ![c] = "traverse"]
    /\ UNCHANGED <<db, bom_query_fails, response, args, globals, nodes, bom_tree, error, leaf_parts, dedup, result>>

\* Part.DoesNotExist is caught and the empty tuple returned.
PartDoesNotExist(c) ==
    /\ pc[c] = "start"
    /\ args[c].part_id \notin PartIds
    /\ error' = [error EXCEPT ![c] =
                    [kind |-> "DoesNotExist", part_id |-> args[c].part_id,
                     level |-> NoneVal]]
    /\ result' = [result EXCEPT ![c] = NotFoundResult]
    /\ pc' = [pc EXCEPT ![c] = "done"]
    /\ UNCHANGED <<db, bom_query_fails, response, args, globals, stack, nodes, bom_tree, imp_counter,
                   depth_tracker, leaf_parts, dedup>>

\* --------------------------------------------------------- traverse_bom
\* Variant: the cycle check comes after the depth check and is skipped at
\* the limit.
InVisitedBelowLimit(part_id, visited, max_depth, level) ==
    part_id \in visited /\ ~MaxDepthHit(max_depth, level)

\* if part_id in visited, the first statement of traverse_bom, whatever the
\* level and the limit.
InVisited(part_id, visited, max_depth, level) == part_id \in visited

\* The part is already in visited: ValueError leaves traverse_bom.
CycleDetected(c) ==
    /\ pc[c] = "traverse"
    /\ stack[c] # <<>>
    /\ Top(c).phase = "enter"
    /\ InVisited(Top(c).part_id, Top(c).visited, args[c].max_depth, Top(c).level)
    /\ error' = [error EXCEPT ![c] = CycleError(Top(c).part_id, Top(c).level)]
    /\ pc' = [pc EXCEPT ![c] = "raised"]
    /\ UNCHANGED <<db, bom_query_fails, response, args, globals, stack, nodes, bom_tree, imp_counter,
                   depth_tracker, leaf_parts, dedup, result>>

\* Entry of traverse_bom up to the loop over the BOM items.  (bom_fetch_failed
\* is not a key of the node: it records that get_bom_items was called for the
\* node while the query failed.)
Visit(c) ==
    /\ pc[c] = "traverse"
    /\ stack[c] # <<>>
    /\ Top(c).phase = "enter"
    /\ ~InVisited(Top(c).part_id, Top(c).visited, args[c].max_depth, Top(c).level)
    /\ LET f == Top(c)
           part == PartTable[f.part_id]
           part_type == CategorizePart(part.assembly, f.level = 0, part.supplier,
                                       InternalSupplierIds, part.category,
                                       CategoryMappings, f.bom_item_notes)
           max_depth_hit == MaxDepthHit(args[c].max_depth, f.level)
           node == [part_id |-> f.part_id, ipn |-> part.IPN,
                    cumulative_qty |-> f.parent_qty, level |-> f.level,
                    parent_ipn |-> f.parent_ipn, unit |-> part.units,
                    is_assembly |-> part.assembly, part_type |-> part_type,
                    children |-> <<>>, max_depth_exceeded |-> FALSE,
                    quantity |-> NoneVal, reference |-> <<>>, note |-> <<>>,
                    from_internal_fab_parent |-> FALSE,
                    parent_part_id |-> NoneVal, cut_length |-> NoneVal,
                    bom_fetch_failed |->
                        part.assembly /\ ~max_depth_hit /\ bom_query_fails]
       IN  /\ imp_counter' = [imp_counter EXCEPT ![c] =
                                IF part_type = "Internal Fab" THEN @ + 1 ELSE @]
           /\ depth_tracker' = [depth_tracker EXCEPT ![c] = TrackMaxLevel(@, f.level)]
           /\ nodes' = [nodes EXCEPT ![c] = Append(@, node)]
           /\ stack' = [stack EXCEPT ![c][Len(stack[c])] =
                          [f EXCEPT !.phase = "loop",
                                    !.visited = f.visited \cup {f.part_id},
                                    !.node = Len(nodes[c]) + 1,
                                    !.max_depth_hit = max_depth_hit,
                                    !.fetched = part.assembly /\ ~max_depth_hit,
                                    !.pending = IF part.assembly /\ ~max_depth_hit
                                                THEN GetBomItems(f.part_id)
                                                ELSE <<>>]]
    /\ UNCHANGED <<db, bom_query_fails, response, args, globals, pc, bom_tree, error, leaf_parts, dedup, result>>

\* One iteration of the loop: the recursive call for the next BOM item.
Recurse(c) ==
    /\ pc[c] = "traverse"
    /\ stack[c] # <<>>
    /\ Top(c).phase = "loop"
    /\ Top(c).pending # <<>>
    /\ LET f == Top(c)
           bom_item == BomItemUniverse[Head(f.pending)]
           node == nodes[c][f.node]
       IN  stack' = [stack EXCEPT ![c] =
                        Append(@, Frame(bom_item.sub_part, f.level + 1,
                                        ChildCumulativeQty(f.parent_qty, bom_item.quantity),
                                        node.ipn, f.visited, bom_item.note,
                                        Head(f.pending)))]
    /\ UNCHANGED <<db, bom_query_fails, response, args, globals, pc, nodes, bom_tree, imp_counter,
                   depth_tracker, error, leaf_parts, dedup, result>>

\* traverse_bom returns its node; the caller's loop body finishes with it.
Return(c) ==
    /\ pc[c] = "traverse"
    /\ stack[c] # <<>>
    /\ Top(c).phase = "loop"
    /\ Top(c).pending = <<>>
    /\ LET f == Top(c)
           n == Len(stack[c])
           done == [nodes[c][f.node] EXCEPT
                       !.max_depth_exceeded =
                           MaxDepthExceeded(f.max_depth_hit, nodes[c][f.node].is_assembly)]
       IN  IF n = 1
           THEN /\ nodes' = [nodes EXCEPT ![c][f.node] = done]
                /\ bom_tree' = [bom_tree EXCEPT ![c] = f.node]
                /\ stack' = [stack EXCEPT ![c] = <<>>]
                /\ pc' = [pc EXCEPT ![c] = "flatten"]
           ELSE LET parent == stack[c][n - 1]
                    pnode == nodes[c][parent.node]
                    bom_item == BomItemUniverse[f.bom_pk]
                    child == [done EXCEPT !.quantity = bom_item.quantity,
                                          !.reference = bom_item.reference,
                                          !.note = bom_item.note]
                    marked ==
                        IF pnode.part_type = "Internal Fab"
                           /\ child.part_type \in {"Fab", "Coml"}
                        THEN [child EXCEPT !.from_internal_fab_parent = TRUE,
                                           !.parent_ipn = pnode.ipn,
                                           !.parent_part_id = pnode.part_id,
                                           !.cut_length = bom_item.quantity]
                        ELSE child
                IN  /\ nodes' = [nodes EXCEPT
                                   ![c][f.node] = marked,
                                   ![c][parent.node].children = Append(@, f.node)]
                    /\ stack' = [stack EXCEPT ![c] =
                                   [SubSeq(@, 1, n - 1) EXCEPT
                                      ![n - 1].pending = Tail(parent.pending),
                                      ![n - 1].visited =
                                          VisitedAfterCall(parent.visited, f.visited)]]
                    /\ UNCHANGED <<bom_tree, pc>>
    /\ UNCHANGED <<db, bom_query_fails, response, args, globals, imp_counter, depth_tracker, error,
                   leaf_parts, dedup, result>>

\* Variant: the handler logs and re-raises.
HandleExceptionReraise(c) ==
    /\ pc[c] = "raised"
    /\ pc' = [pc EXCEPT ![c] = "propagated"]
    /\ UNCHANGED <<db, bom_query_fails, response, args, globals, stack, nodes, bom_tree, imp_counter,
                   depth_tracker, error, leaf_parts, dedup, result>>

\* except Exception in get_flat_bom: log and return the empty tuple.
HandleException(c) ==
    /\ pc[c] = "raised"
    /\ result' = [result EXCEPT ![c] = ErrorResult]
    /\ pc' = [pc EXCEPT ![c] = "done"]
    /\ UNCHANGED <<db, bom_query_fails, response, args, globals, stack, nodes, bom_tree, imp_counter,
                   depth_tracker, error, leaf_parts, dedup>>

\* -------------------------------------------------- get_leaf_parts_only
\* The dictionary appended to leaves for a tree node.  (node is not a key of
\* the dictionary: it records the index of the tree node the record was
\* made from.)  Variant: the record also copies the node's BOM quantity.
LeafRecordWithQuantity(idx, tree, cut_length, assembly_no_children) ==
    [node |-> idx, part_id |-> tree.part_id, ipn |-> tree.ipn,
     cumulative_qty |-> tree.cumulative_qty, cut_length |-> cut_length,
     unit |-> tree.unit, is_assembly |-> tree.is_assembly,
     part_type |-> tree.part_type, reference |-> tree.reference,
     note |-> tree.note, level |-> tree.level,
     from_internal_fab_parent |-> tree.from_internal_fab_parent,
     parent_ipn |-> tree.parent_ipn, parent_part_id |-> tree.parent_part_id,
     assembly_no_children |-> assembly_no_children,
     max_depth_exceeded |-> tree.max_depth_exceeded,
     quantity |-> tree.quantity]

\* The leaf dictionary of the code: it has no "quantity" key.
LeafRecord(idx, tree, cut_length, assembly_no_children) ==
    [node |-> idx, part_id |-> tree.part_id, ipn |-> tree.ipn,
     cumulative_qty |-> tree.cumulative_qty, cut_length |-> cut_length,
     unit |-> tree.unit, is_assembly |-> tree.is_assembly,
     part_type |-> tree.part_type, reference |-> tree.reference,
     note |-> tree.note, level |-> tree.level,
     from_internal_fab_parent |-> tree.from_internal_fab_parent,
     parent_ipn |-> tree.parent_ipn, parent_part_id |-> tree.parent_part_id,
     assembly_no_children |-> assembly_no_children,
     max_depth_exceeded |-> tree.max_depth_exceeded,
     quantity |-> NoneVal]

\* Variant: only the three leaf categories make a leaf (no fallback).
IsNonAssemblyLeafByCategory(part_type, is_assembly) ==
    part_type \in {"Coml", "Fab", "CtL"}

\* is_non_assembly_leaf: one of the leaf categories, or any non-assembly.
IsNonAssemblyLeaf(part_type, is_assembly) ==
    part_type \in {"Coml", "Fab", "CtL"} \/ ~is_assembly

\* Variant: a purchased assembly is never expanded.
KeepPurchasedWholeAlways(part_type, expand_purchased_assemblies) ==
    part_type = "Purchased Assy"

\* elif is_purchaseable_assembly and not expand_purchased_assemblies
KeepPurchasedWhole(part_type, expand_purchased_assemblies) ==
    part_type = "Purchased Assy" /\ ~expand_purchased_assemblies

\* Variant: every assembly without children is flagged.
AssemblyNoChildrenAlways(max_depth_exceeded) == TRUE

\* assembly_no_children_flag = not max_depth_exceeded
AssemblyNoChildrenFlag(max_depth_exceeded) == ~max_depth_exceeded

\* get_leaf_parts_only(tree) for the node with index idx of the tree ns:
\* the leaf records it appends, in order.
RECURSIVE GetLeafPartsOnly(_, _, _)
GetLeafPartsOnly(ns, idx, expand_purchased_assemblies) ==
    LET tree == ns[idx]
        part_type == tree.part_type
        is_non_assembly_leaf == IsNonAssemblyLeaf(part_type, tree.is_assembly)
        cut_length ==
            IF part_type = "CtL" THEN ExtractLengthFromNotes(tree.note)
            ELSE IF tree.from_internal_fab_parent THEN tree.cut_length
            ELSE NoneVal
        own == IF is_non_assembly_leaf
               THEN <<LeafRecord(idx, tree, cut_length, FALSE)>> ELSE <<>>
        RECURSIVE ChildLeaves(_)
        ChildLeaves(k) ==
            IF k > Len(tree.children) THEN <<>>
            ELSE GetLeafPartsOnly(ns, tree.children[k], expand_purchased_assemblies)
                 \o ChildLeaves(k + 1)
    IN  IF ~is_non_assembly_leaf
           /\ KeepPurchasedWhole(part_type, expand_purchased_assemblies)
        THEN <<LeafRecord(idx, tree, NoneVal, FALSE)>>
        ELSE IF tree.is_assembly /\ tree.children = <<>>
        THEN own \o <<LeafRecord(idx, tree, NoneVal,
                                  AssemblyNoChildrenFlag(tree.max_depth_exceeded))>>
        ELSE own \o ChildLeaves(1)

\* -------------------------------------------------- deduplicate_and_sum
\* leaf.get("quantity") or 1
PieceCountInc(leaf) == IF leaf.quantity = NoneVal \/ leaf.quantity = 0 THEN 1 ELSE leaf.quantity

\* Variant: a unit outside the allowed set falls back to cumulative_qty.
TotalIncrementCumulativeFallback(leaf, allowed_ifab_units) ==
    IF leaf.part_type = "CtL" /\ leaf.cut_length # NoneVal
    THEN leaf.cumulative_qty * leaf.cut_length
    ELSE IF leaf.from_internal_fab_parent /\ leaf.cut_length # NoneVal
    THEN IF leaf.unit \notin allowed_ifab_units
         THEN leaf.cumulative_qty
         ELSE leaf.cut_length * PieceCountInc(leaf)
    ELSE leaf.cumulative_qty

\* What one leaf adds to totals[key].
TotalIncrement(leaf, allowed_ifab_units) ==
    IF leaf.part_type = "CtL" /\ leaf.cut_length # NoneVal
    THEN leaf.cumulative_qty * leaf.cut_length
    ELSE IF leaf.from_internal_fab_parent /\ leaf.cut_length # NoneVal
    THEN IF leaf.unit \notin allowed_ifab_units
         THEN leaf.cut_length * PieceCountInc(leaf)
         ELSE leaf.cut_length * PieceCountInc(leaf)
    ELSE leaf.cumulative_qty

\* Variant: totals[key] = increment.
OverwriteTotal(total, increment) == increment

\* totals[key] += increment
AddToTotal(total, increment) == total + increment

\* Variant: an entry counts its records, not their quantities.
MergeCutCountsRecords(cuts, leaf) ==
    IF \E i \in 1..Len(cuts) : cuts[i].length = leaf.cut_length
    THEN LET i == CHOOSE j \in 1..Len(cuts) : cuts[j].length = leaf.cut_length
         IN  [cuts EXCEPT ![i].quantity = @ + 1]
    ELSE Append(cuts, [quantity |-> 1, length |-> leaf.cut_length])

\* cut_lists[key] after the leaf: merge by equal length.
MergeCut(cuts, leaf) ==
    IF \E i \in 1..Len(cuts) : cuts[i].length = leaf.cut_length
    THEN LET i == CHOOSE j \in 1..Len(cuts) :
                    /\ cuts[j].length = leaf.cut_length
                    /\ \A k \in 1..(j - 1) : cuts[k].length # leaf.cut_length
         IN  [cuts EXCEPT ![i].quantity = @ + leaf.cumulative_qty]
    ELSE Append(cuts, [quantity |-> leaf.cumulative_qty, length |-> leaf.cut_length])

\* Variant: every record appends an entry of its own.
MergePieceAppendOnly(pieces, leaf) ==
    Append(pieces, [count |-> PieceCountInc(leaf),
                    piece_qty |-> leaf.cut_length, unit |-> leaf.unit])

\* internal_fab_cut_lists[key] after the leaf: merge by (piece_qty, unit).
MergePiece(pieces, leaf) ==
    LET same(i) == pieces[i].piece_qty = leaf.cut_length /\ pieces[i].unit = leaf.unit
    IN  IF \E i \in 1..Len(pieces) : same(i)
        THEN LET i == CHOOSE j \in 1..Len(pieces) :
                        same(j) /\ \A k \in 1..(j - 1) : ~same(k)
             IN  [pieces EXCEPT ![i].count = @ + PieceCountInc(leaf)]
        ELSE Append(pieces, [count |-> PieceCountInc(leaf),
                             piece_qty |-> leaf.cut_length, unit |-> leaf.unit])

EmptyEntry ==
    [seen |-> FALSE, total |-> 0, references |-> <<>>, cut_list |-> <<>>,
     internal_fab_cut_list |-> <<>>, ipn |-> <<>>, unit |-> <<>>,
     is_assembly |-> FALSE, part_type |-> "", note |-> <<>>,
     assembly_no_children |-> FALSE, max_depth_exceeded |-> FALSE]

\* Variant: the last note replaces the ones collected before.
OverwriteReference(references, leaf) ==
    IF leaf.note # <<>> /\ Strip(leaf.note) # <<>> THEN <<leaf.note>> ELSE references

\* if note and note.strip(): part_references[key].append(note)
CollectReference(references, leaf) ==
    IF leaf.note # <<>> /\ Strip(leaf.note) # <<>>
    THEN Append(references, leaf.note) ELSE references

\* One iteration of the loop over leaf_parts, on the dictionaries' entries
\* for the leaf's part.
AccumulateLeaf(e, leaf, allowed_ifab_units) ==
    LET is_ctl == leaf.part_type = "CtL" /\ leaf.cut_length # NoneVal
        is_ifab == ~is_ctl /\ leaf.from_internal_fab_parent /\ leaf.cut_length # NoneVal
        counted == [e EXCEPT
            !.total = AddToTotal(@, TotalIncrement(leaf, allowed_ifab_units)),
            !.cut_list = IF is_ctl THEN MergeCut(@, leaf) ELSE @,
            !.internal_fab_cut_list =
                IF is_ifab /\ leaf.unit \in allowed_ifab_units
                THEN MergePiece(@, leaf) ELSE @,
            !.references = CollectReference(@, leaf)]
    IN  IF e.seen THEN counted
        ELSE [counted EXCEPT
                !.seen = TRUE, !.ipn = leaf.ipn, !.unit = leaf.unit,
                !.is_assembly = leaf.is_assembly, !.part_type = leaf.part_type,
                !.note = leaf.note,
                !.assembly_no_children = leaf.assembly_no_children,
                !.max_depth_exceeded = leaf.max_depth_exceeded]

\* The dictionaries after the loop over leaf_parts, keyed by part id.
RECURSIVE Accumulate(_, _)
Accumulate(leaves, allowed_ifab_units) ==
    IF leaves = <<>> THEN [p \in PartIds |-> EmptyEntry]
    ELSE LET before == Accumulate(SubSeq(leaves, 1, Len(leaves) - 1), allowed_ifab_units)
             leaf == leaves[Len(leaves)]
         IN  [before EXCEPT ![leaf.part_id] =
                 AccumulateLeaf(@, leaf, allowed_ifab_units)]

\* The unit-mismatch warnings: one per CtL part and distinct note.
CtlWarnings(leaves) ==
    {[type |-> "unit_mismatch", part_id |-> leaves[i].part_id, note |-> leaves[i].note] :
        i \in {j \in 1..Len(leaves) :
                 /\ leaves[j].part_type = "CtL"
                 /\ leaves[j].note # <<>>
                 /\ CheckUnitMismatch(leaves[j].note, PartTable[leaves[j].part_id].units)}}

\* ", ".join(references)
RECURSIVE JoinReferences(_)
JoinReferences(refs) ==
    IF refs = <<>> THEN <<>>
    ELSE IF Len(refs) = 1 THEN refs[1]
    ELSE refs[1] \o <<",", " ">> \o JoinReferences(Tail(refs))

\* Variant: the keys in ascending order of part id.
SortedByPartId(keys, acc) == SortedSeq(keys)

\* sorted(all_keys, key=ipn): keys in ascending IPN order.
RECURSIVE SortedByIpn(_, _)
SortedByIpn(keys, acc) ==
    IF keys = {} THEN <<>>
    ELSE LET m == CHOOSE k \in keys :
                    \A j \in keys :
                        \/ StrLess(acc[k].ipn, acc[j].ipn)
                        \/ (acc[k].ipn = acc[j].ipn /\ k <= j)
         IN  <<m>> \o SortedByIpn(keys \ {m}, acc)

\* Variant: the key is always there, empty when the feature is off.
RowWithNullCutList(key, e, enable_ifab_cuts) ==
    [part_id |-> key, total_qty |-> e.total, ipn |-> e.ipn,
     unit |-> e.unit, is_assembly |-> e.is_assembly,
     part_type |-> e.part_type, note |-> e.note,
     reference |-> JoinReferences(e.references),
     cut_list |-> e.cut_list,
     assembly_no_children |-> e.assembly_no_children,
     max_depth_exceeded |-> e.max_depth_exceeded,
     internal_fab_cut_list |->
         IF enable_ifab_cuts THEN e.internal_fab_cut_list ELSE <<>>]

\* The row dictionary of a part.  (A list the code replaces by None when it
\* is empty, cut_list and internal_fab_cut_list, is the empty sequence.)
Row(key, e, enable_ifab_cuts) ==
    LET row == [part_id |-> key, total_qty |-> e.total, ipn |-> e.ipn,
                unit |-> e.unit, is_assembly |-> e.is_assembly,
                part_type |-> e.part_type, note |-> e.note,
                reference |-> JoinReferences(e.references),
                cut_list |-> e.cut_list,
                assembly_no_children |-> e.assembly_no_children,
                max_depth_exceeded |-> e.max_depth_exceeded]
    IN  IF enable_ifab_cuts
        THEN row @@ [internal_fab_cut_list |-> e.internal_fab_cut_list]
        ELSE row

\* The result list built from the dictionaries.
BuildRows(acc, enable_ifab_cuts) ==
    LET order == SortedByIpn({p \in PartIds : acc[p].seen}, acc)
    IN  [i \in 1..Len(order) |-> Row(order[i], acc[order[i]], enable_ifab_cuts)]

NoDedup == [allowed |-> {}, acc |-> [p \in PartIds |-> EmptyEntry], flat_bom |-> <<>>]

\* --------------------------------------- get_flat_bom after the traversal
\* Step 2: get_leaf_parts_only on the tree.
Flatten(c) ==
    /\ pc[c] = "flatten"
    /\ leaf_parts' = [leaf_parts EXCEPT ![c] =
           GetLeafPartsOnly(nodes[c], bom_tree[c], args[c].expand_purchased_assemblies)]
    /\ pc' = [pc EXCEPT ![c] = "set_units"]
    /\ UNCHANGED <<db, bom_query_fails, response, args, globals, stack, nodes, bom_tree, imp_counter,
                   depth_tracker, error, dedup, result>>

\* Variant: the attribute is set only while the function has none yet.
SetIfabUnitsOnce(c) ==
    /\ pc[c] = "set_units"
    /\ fa_ifab_units' = IF fa_ifab_units.has THEN fa_ifab_units
                        ELSE SetAttr(args[c].ifab_units)
    /\ pc' = [pc EXCEPT ![c] = "set_enable"]
    /\ UNCHANGED <<db, bom_query_fails, response, args, fa_enable, fa_ctl_warnings, stack, nodes, bom_tree,
                   imp_counter, depth_tracker, error, leaf_parts, dedup, result>>

\* deduplicate_and_sum.ifab_units = ifab_units
SetIfabUnits(c) ==
    /\ pc[c] = "set_units"
    /\ fa_ifab_units' = SetAttr(args[c].ifab_units)
    /\ pc' = [pc EXCEPT ![c] = "set_enable"]
    /\ UNCHANGED <<db, bom_query_fails, response, args, fa_enable, fa_ctl_warnings, stack, nodes, bom_tree,
                   imp_counter, depth_tracker, error, leaf_parts, dedup, result>>

\* deduplicate_and_sum.enable_ifab_cuts = enable_ifab_cuts
SetEnableIfabCuts(c) ==
    /\ pc[c] = "set_enable"
    /\ fa_enable' = SetAttr(args[c].enable_ifab_cuts)
    /\ pc' = [pc EXCEPT ![c] = "dedup_units"]
    /\ UNCHANGED <<db, bom_query_fails, response, args, fa_ifab_units, fa_ctl_warnings, stack, nodes, bom_tree,
                   imp_counter, depth_tracker, error, leaf_parts, dedup, result>>

\* deduplicate_and_sum reads its allowed units from the function attribute.
DedupReadUnits(c) ==
    /\ pc[c] = "dedup_units"
    /\ dedup' = [dedup EXCEPT ![c].allowed =
                    IF fa_ifab_units.has THEN fa_ifab_units.val ELSE {}]
    /\ pc' = [pc EXCEPT ![c] = "dedup_sum"]
    /\ UNCHANGED <<db, bom_query_fails, response, args, globals, stack, nodes, bom_tree, imp_counter,
                   depth_tracker, error, leaf_parts, result>>

\* The loops over leaf_parts; the warnings are stored on the function.
DedupSum(c) ==
    /\ pc[c] = "dedup_sum"
    /\ dedup' = [dedup EXCEPT ![c].acc = Accumulate(leaf_parts[c], dedup[c].allowed)]
    /\ fa_ctl_warnings' = SetAttr(CtlWarnings(leaf_parts[c]))
    /\ pc' = [pc EXCEPT ![c] = "dedup_rows"]
    /\ UNCHANGED <<db, bom_query_fails, response, args, fa_ifab_units, fa_enable, stack, nodes, bom_tree,
                   imp_counter, depth_tracker, error, leaf_parts, result>>

\* The result rows, with internal_fab_cut_list when the attribute says so.
DedupRows(c) ==
    /\ pc[c] = "dedup_rows"
    /\ dedup' = [dedup EXCEPT ![c].flat_bom =
                    BuildRows(dedup[c].acc, IF fa_enable.has THEN fa_enable.val ELSE FALSE)]
    /\ pc' = [pc EXCEPT ![c] = "get_warnings"]
    /\ UNCHANGED <<db, bom_query_fails, response, args, globals, stack, nodes, bom_tree, imp_counter,
                   depth_tracker, error, leaf_parts, result>>

\* get_flat_bom fetches the warnings from the function and returns.
ReturnResult(c) ==
    /\ pc[c] = "get_warnings"
    /\ result' = [result EXCEPT ![c] =
                    <<dedup[c].flat_bom, imp_counter[c],
                      IF fa_ctl_warnings.has THEN fa_ctl_warnings.val ELSE {},
                      depth_tracker[c]>>]
    /\ pc' = [pc EXCEPT ![c] = "done"]
    /\ UNCHANGED <<db, bom_query_fails, response, args, globals, stack, nodes, bom_tree, imp_counter,
                   depth_tracker, error, leaf_parts, dedup>>

\* ------------------------------------------------------- specifications
Step(c) ==
    \/ FetchPart(c)
    \/ PartDoesNotExist(c)
    \/ CycleDetected(c)
    \/ Visit(c)
    \/ Recurse(c)
    \/ Return(c)
    \/ HandleException(c)
    \/ Flatten(c)
    \/ SetIfabUnits(c)
    \/ SetEnableIfabCuts(c)
    \/ DedupReadUnits(c)
    \/ DedupSum(c)
    \/ DedupRows(c)
    \/ ReturnResult(c)

InitCommon ==
    /\ bom_query_fails = FALSE
    /\ response = NoResponse
    /\ fa_ifab_units = UnsetAttr({})
    /\ fa_enable = UnsetAttr(FALSE)
    /\ fa_ctl_warnings = UnsetAttr({})
    /\ stack = [c \in Calls |-> <<>>]
    /\ nodes = [c \in Calls |-> <<>>]
    /\ bom_tree = [c \in Calls |-> 0]
    /\ imp_counter = [c \in Calls |-> 0]
    /\ depth_tracker = [c \in Calls |-> 0]
    /\ error = [c \in Calls |-> NoError]
    /\ leaf_parts = [c \in Calls |-> <<>>]
    /\ dedup = [c \in Calls |-> NoDedup]
    /\ result = [c \in Calls |-> <<>>]

\* One call of get_flat_bom on some database.
Init ==
    /\ InitCommon
    /\ db \in Databases
    /\ \E a \in ArgSet \cup LeafRootArgSet :
          /\ args = [c \in Calls |-> IF c = 1 THEN a ELSE IdleArgs]
          /\ a \in LeafRootArgSet => Cardinality(db) <= MaxLeafRootRows
    /\ pc = [c \in Calls |-> IF c = 1 THEN "start" ELSE "idle"]

Next == Step(1)

Spec == Init /\ [][Next]_vars

\* One call on a database of the rows among assemblies (TraversalRows), with
\* the aggregation settings at their defaults; every step that can be taken
\* is taken eventually (the interpreter keeps running the call).
TraversalRows == {1, 2, 3, 4, 5, 7, 17}

TraversalArgSet ==
    {a \in ArgSet : /\ ~a.expand_purchased_assemblies
                    /\ ~a.enable_ifab_cuts
                    /\ a.ifab_units = {}}

InitTraversal ==
    /\ InitCommon
    /\ db \in {S \in Databases : S \subseteq TraversalRows}
    /\ \E a \in TraversalArgSet : args = [c \in Calls |-> IF c = 1 THEN a ELSE IdleArgs]
    /\ pc = [c \in Calls |-> IF c = 1 THEN "start" ELSE "idle"]

FairSpec == InitTraversal /\ [][Next]_vars /\ WF_vars(Next)

\* Two calls of get_flat_bom in two request threads of one process, their
\* steps interleaved, on a database of rows of ConcurrentRows.
ConcurrentRows == {2, 4, 9, 10, 14}

ConcurrentArgSet ==
    {a \in ArgSet : a.max_depth = NoneVal /\ ~a.expand_purchased_assemblies}

InitConcurrent ==
    /\ InitCommon
    /\ db \in {S \in Databases : S \subseteq ConcurrentRows}
    /\ args \in [Calls -> ConcurrentArgSet]
    /\ pc = [c \in Calls |-> "start"]

NextConcurrent == \E c \in Calls : Step(c)

SpecConcurrent == InitConcurrent /\ [][NextConcurrent]_vars

\* ================================================================ claims
\* ------------------------------------------------- the BOM as a graph
\* Sub-parts of the BOM lines of an assembly.
SubParts(p) ==
    IF PartTable[p].assembly
    THEN {BomItemUniverse[pk].sub_part : pk \in {k \in db : BomItemUniverse[k].part = p}}
    ELSE {}

RECURSIVE ReachClosure(_)
ReachClosure(S) ==
    LET n == S \cup UNION {SubParts(p) : p \in S}
    IN  IF n = S THEN S ELSE ReachClosure(n)

\* Parts below p, one BOM line or more away.
Descendants(p) == ReachClosure(SubParts(p))

\* The BOM graph reachable from root holds a part that is its own ancestor.
CycleReachable(root) ==
    /\ root \in PartIds
    /\ \E p \in ReachClosure({root}) : p \in Descendants(p)

RootExists(c) == args[c].part_id \in PartIds

Returned(c) == pc[c] = "done"

\* The leaf records of part p in the call's leaf list.
LeafRecordsOf(c, p) == SelectSeq(leaf_parts[c], LAMBDA leaf : leaf.part_id = p)

\* The rows of part p in the list the call returned.
RowsOf(c, p) == SelectSeq(result[c][1], LAMBDA row : row.part_id = p)

IsCtlRecord(leaf) == leaf.part_type = "CtL" /\ leaf.cut_length # NoneVal

IsIfabCutRecord(leaf) ==
    ~IsCtlRecord(leaf) /\ leaf.from_internal_fab_parent /\ leaf.cut_length # NoneVal

IsRegularRecord(leaf) == ~IsCtlRecord(leaf) /\ ~IsIfabCutRecord(leaf)

\* ------------------------------------------------------------------- C1
\* C1 (as stated): when the BOM reachable from the root holds a cycle and no
\* depth limit is set, get_flat_bom fails and returns no result tuple.
C1_Original ==
    \A c \in Calls :
        (RootExists(c) /\ args[c].max_depth = NoneVal
         /\ CycleReachable(args[c].part_id) /\ pc[c] \in {"raised", "done"})
        => result[c] = <<>>

\* C1 (amended): in that case traverse_bom's cycle error is caught inside
\* get_flat_bom, which returns the empty tuple ([], 0, [], 0): no rows, no
\* counts and no tree of the aborted traversal reach the caller.
C1_CycleReturnsEmptyTuple ==
    \A c \in Calls :
        (RootExists(c) /\ args[c].max_depth = NoneVal
         /\ CycleReachable(args[c].part_id) /\ Returned(c))
        => /\ error[c].kind = "ValueError"
           /\ result[c] = << <<>>, 0, {}, 0 >>
           /\ bom_tree[c] = 0

C1_Witness ==
    /\ Returned(1)
    /\ args[1].max_depth = NoneVal
    /\ CycleReachable(args[1].part_id)
    /\ result[1] = << <<>>, 0, {}, 0 >>
    /\ Len(nodes[1]) >= 2

\* ------------------------------------------------------------------- C2
\* The tuple a call returns when it runs alone: computed from its own
\* arguments and its own leaf records and counters.
ResultAlone(c) ==
    << BuildRows(Accumulate(leaf_parts[c], args[c].ifab_units),
                 args[c].enable_ifab_cuts),
       imp_counter[c], CtlWarnings(leaf_parts[c]), depth_tracker[c] >>

\* C2: with two calls interleaved, each call returns exactly the rows,
\* internal-fab count, warnings and max depth it would return alone.
C2_Isolation ==
    \A c \in Calls :
        (Returned(c) /\ error[c].kind = "none") => result[c] = ResultAlone(c)

\* ------------------------------------------------------------------- C3
\* C3: the cycle error is raised only for a part that is an ancestor of
\* itself on the current path; on an acyclic BOM it is never raised, also
\* when a part is reached along several paths.
C3_NoFalseCycle ==
    \A c \in Calls :
        error[c].kind = "ValueError"
        => /\ \E i \in 1..(Len(stack[c]) - 1) :
                  stack[c][i].part_id = error[c].part_id
           /\ CycleReachable(args[c].part_id)

\* A returned tree in which one part occurs in two branches.
C3_Witness ==
    /\ pc[1] = "flatten"
    /\ ~CycleReachable(args[1].part_id)
    /\ \E i, j \in 1..Len(nodes[1]) :
           i # j /\ nodes[1][i].part_id = nodes[1][j].part_id

\* ------------------------------------------------------------------- C4
\* Parts on the path from the root to the parent of the call at the top.
PathParts(c) == {stack[c][i].part_id : i \in 1..(Len(stack[c]) - 1)}

DepthBounded(c) ==
    args[c].max_depth # NoneVal
    => /\ \A i \in 1..Len(nodes[c]) : nodes[c][i].level <= args[c].max_depth
       /\ \A i \in 1..Len(stack[c]) : stack[c][i].level <= args[c].max_depth

\* C5: traverse_bom terminates on every BOM, cyclic or not, with or without
\* a depth limit, by returning a tree or raising the cycle error; with
\* max_depth = d no call is made at a level greater than d.
C5_TerminatesWithinDepth ==
    /\ (pc[1] = "traverse") ~> (pc[1] \in {"flatten", "raised"})
    /\ [](DepthBounded(1))

\* A cyclic BOM whose traversal returned a tree because of the depth limit.
C5_Witness ==
    /\ pc[1] = "flatten"
    /\ args[1].max_depth = 2
    /\ CycleReachable(args[1].part_id)
    /\ \E i \in 1..Len(nodes[1]) : nodes[1][i].level = 2

\* ------------------------------------------------------------------- C6
\* C6: in a returned tree the root has cumulative_qty 1 and every other
\* node has its parent's cumulative_qty times the quantity of its BOM line.
C6_CumulativeQty ==
    \A c \in Calls :
        bom_tree[c] # 0
        => /\ nodes[c][bom_tree[c]].cumulative_qty = 1
           /\ \A i \in 1..Len(nodes[c]) :
                \A k \in 1..Len(nodes[c][i].children) :
                    LET child == nodes[c][nodes[c][i].children[k]]
                    IN  child.cumulative_qty
                            = nodes[c][i].cumulative_qty * child.quantity

\* root -> C (qty 3) -> part 6 (qty 2): cumulative quantity 6 at level 2.
C6_Witness ==
    /\ bom_tree[1] # 0
    /\ \E i \in 1..Len(nodes[1]) :
           /\ nodes[1][i].level = 2
           /\ nodes[1][i].quantity = 2
           /\ nodes[1][i].cumulative_qty = 6

\* ------------------------------------------------------------------- C7
RECURSIVE SumCumulativeQty(_)
SumCumulativeQty(leaves) ==
    IF leaves = <<>> THEN 0
    ELSE Head(leaves).cumulative_qty + SumCumulativeQty(Tail(leaves))

\* Sum, over the paths of BOM lines from part p (met at the given level, with
\* cumulative quantity 1) down to the non-assembly part target along which
\* the flattener reaches target, of the product of the line quantities.  A
\* path ends early at the depth limit and at a Purchased Assy that is not
\* expanded.  (For BOMs without a cycle below p.)
RECURSIVE LeafPathQty(_, _, _, _)
LeafPathQty(a, p, target, level) ==
    LET part == PartTable[p]
        purchased == level > 0 /\ part.assembly /\ part.supplier # NoneVal
                     /\ part.supplier \notin InternalSupplierIds
        lines == SortedSeq({pk \in db : BomItemUniverse[pk].part = p})
        RECURSIVE Below(_)
        Below(k) ==
            IF k > Len(lines) THEN 0
            ELSE BomItemUniverse[lines[k]].quantity
                    * LeafPathQty(a, BomItemUniverse[lines[k]].sub_part, target, level + 1)
                 + Below(k + 1)
    IN  IF p = target THEN 1
        ELSE IF ~part.assembly THEN 0
        ELSE IF a.max_depth # NoneVal /\ level >= a.max_depth THEN 0
        ELSE IF purchased /\ ~a.expand_purchased_assemblies THEN 0
        ELSE Below(1)

\* C7: a part whose leaf records all fall under the regular rule gets
\* exactly one row, and its total_qty is the sum of the cumulative
\* quantities of the paths that yield its leaf records.
C7_RegularTotal ==
    \A c \in Calls :
        (Returned(c) /\ error[c].kind = "none")
        => \A p \in PartIds :
             LET recs == LeafRecordsOf(c, p)
             IN  (recs # <<>> /\ \A i \in 1..Len(recs) : IsRegularRecord(recs[i]))
                 => /\ Len(RowsOf(c, p)) = 1
                    /\ RowsOf(c, p)[1].total_qty = SumCumulativeQty(recs)
                    /\ (~PartTable[p].assembly /\ ~CycleReachable(args[c].part_id))
                       => RowsOf(c, p)[1].total_qty
                             = LeafPathQty(args[c], args[c].part_id, p, 0)

\* Part 6 through two branches: 2 x 4 = 8 and 3, one row with total 11.
C7_Witness ==
    /\ Returned(1)
    /\ error[1].kind = "none"
    /\ Len(LeafRecordsOf(1, 6)) = 2
    /\ \A i \in 1..2 : IsRegularRecord(LeafRecordsOf(1, 6)[i])
    /\ Len(RowsOf(1, 6)) = 1
    /\ RowsOf(1, 6)[1].total_qty = 11

\* ------------------------------------------------------------------- C8
\* C8 (as stated): when root_part_id does not resolve, get_flat_bom fails
\* with a part-not-found condition instead of returning a result.
C8_Original ==
    \A c \in Calls :
        (pc[c] # "idle" /\ ~RootExists(c)) => result[c] = <<>>

\* C8 (amended): get_flat_bom catches the part-not-found condition itself
\* and returns the empty tuple ([], 0, [], 0) at once, without traversing
\* anything.
C8_NotFoundReturnsEmptyTuple ==
    \A c \in Calls :
        /\ (pc[c] \notin {"idle", "start"} /\ ~RootExists(c))
           => error[c].kind = "DoesNotExist"
        /\ error[c].kind = "DoesNotExist"
           => /\ Returned(c)
              /\ result[c] = << <<>>, 0, {}, 0 >>
              /\ nodes[c] = <<>>
              /\ leaf_parts[c] = <<>>

C8_Witness ==
    /\ Returned(1)
    /\ ~RootExists(1)
    /\ error[1].kind = "DoesNotExist"
    /\ Len(result[1]) = 4

\* ------------------------------------------------------------------- C9
HasPartIdAndIpn(rows) ==
    \A i \in 1..Len(rows) : {"part_id", "ipn"} \subseteq DOMAIN rows[i]

UnallowedIfabParts(c) ==
    {p \in PartIds :
        LET recs == LeafRecordsOf(c, p)
        IN  /\ recs # <<>>
            /\ \A i \in 1..Len(recs) :
                  /\ IsIfabCutRecord(recs[i])
                  /\ recs[i].unit \notin args[c].ifab_units}

RECURSIVE SumCutLengthTimesCount(_)
SumCutLengthTimesCount(leaves) ==
    IF leaves = <<>> THEN 0
    ELSE Head(leaves).cut_length
            * (IF Head(leaves).quantity \in {NoneVal, 0} THEN 1 ELSE Head(leaves).quantity)
         + SumCutLengthTimesCount(Tail(leaves))

NoCutEntryNoWarning(c, p) ==
    /\ \A w \in result[c][3] : w.part_id # p
    /\ "internal_fab_cut_list" \in DOMAIN RowsOf(c, p)[1]
       => RowsOf(c, p)[1].internal_fab_cut_list = <<>>

\* C10 (as stated): such a record raises no error, no warning and no
\* internal_fab_cut_list entry, and adds its cumulative_qty to total_qty.
C10_Original ==
    \A c \in Calls :
        (Returned(c) /\ error[c].kind = "none")
        => \A p \in UnallowedIfabParts(c) :
              /\ NoCutEntryNoWarning(c, p)
              /\ RowsOf(c, p)[1].total_qty = SumCumulativeQty(LeafRecordsOf(c, p))

\* C10 (amended): such a record raises no error, no warning and no
\* internal_fab_cut_list entry, and adds cut_length x piece_count (piece
\* count = the record's own quantity, 1 when it has none) to total_qty, the
\* amount the allowed-unit branch adds; its cumulative_qty is not used.
C10_UnitFallbackTotal ==
    \A c \in Calls :
        (Returned(c) /\ error[c].kind = "none")
        => \A p \in UnallowedIfabParts(c) :
              /\ Len(RowsOf(c, p)) = 1
              /\ NoCutEntryNoWarning(c, p)
              /\ RowsOf(c, p)[1].total_qty
                    = SumCutLengthTimesCount(LeafRecordsOf(c, p))

\* Root needs 3 of Internal Fab part 4, whose line for part 6 has quantity
\* 5: cumulative quantity 15, total 5.
C10_Witness ==
    /\ Returned(1)
    /\ error[1].kind = "none"
    /\ 6 \in UnallowedIfabParts(1)
    /\ LeafRecordsOf(1, 6)[1].cumulative_qty = 15
    /\ RowsOf(1, 6)[1].total_qty = 5

\* ============================================ deduplicate_and_sum, direct
\* Largest number of leaf records a direct caller hands to
\* deduplicate_and_sum.
MaxLeaves == 3

\* A leaf dictionary as a direct caller of deduplicate_and_sum builds it
\* (the unit tests): the keys the aggregator reads, "quantity" included.
DirectLeaf(part_id, part_type, cumulative_qty, cut_length, unit, note, from_ifab, quantity) ==
    [node |-> 0, part_id |-> part_id, ipn |-> PartTable[part_id].IPN,
     cumulative_qty |-> cumulative_qty, cut_length |-> cut_length,
     unit |-> unit, is_assembly |-> FALSE, part_type |-> part_type,
     reference |-> <<>>, note |-> note, level |-> 1,
     from_internal_fab_parent |-> from_ifab,
     parent_ipn |-> <<>>, parent_part_id |-> NoneVal,
     assembly_no_children |-> FALSE, max_depth_exceeded |-> FALSE,
     quantity |-> quantity]

\* The leaf dictionaries a direct caller chooses from: internal-fab children
\* of part 6 (cumulative_qty 4, ignored by the rule), cut-to-length records of
\* part 7 and regular records of part 6.
DirectLeaves ==
    {DirectLeaf(6, "Coml", 4, l, u, <<>>, TRUE, q) :
        l \in {35, 50}, u \in {<<"m", "m">>}, q \in {NoneVal, 2}}
    \cup {DirectLeaf(6, "Coml", 4, 35, <<"i", "n">>, <<>>, TRUE, q) : q \in {NoneVal, 2}}
    \cup {DirectLeaf(7, "CtL", n, l, <<"m", "m">>, <<>>, FALSE, NoneVal) :
            n \in {1, 2}, l \in {35, 50}}
    \cup {DirectLeaf(6, "Coml", 8, NoneVal, <<"m", "m">>, <<"J", "1">>, FALSE, NoneVal),
          DirectLeaf(6, "Coml", 6, NoneVal, <<"m", "m">>, <<"J", "5">>, FALSE, NoneVal),
          DirectLeaf(6, "Coml", 3, NoneVal, <<"m", "m">>, <<>>, FALSE, NoneVal)}

\* Lists of at most n leaf dictionaries.
RECURSIVE LeafLists(_)
LeafLists(n) ==
    IF n = 0 THEN {<<>>}
    ELSE LET shorter == LeafLists(n - 1)
         IN  shorter \cup {Append(l, x) : l \in {m \in shorter : Len(m) = n - 1},
                                           x \in DirectLeaves}

\* The settings a direct caller stores on the function before the call.
DirectArgSet ==
    [part_id : {1}, max_depth : {NoneVal},
     expand_purchased_assemblies : {FALSE}, enable_ifab_cuts : BOOLEAN,
     ifab_units : {{}, {<<"m", "m">>}, {<<"m", "m">>, <<"i", "n">>}}]

\* The settings in effect when the caller stores nothing on the function.
DefaultDirectArgs ==
    [part_id |-> 1, max_depth |-> NoneVal, expand_purchased_assemblies |-> FALSE,
     enable_ifab_cuts |-> FALSE, ifab_units |-> {}]

\* A caller sets the two function attributes, or in a fresh process sets
\* none, and calls deduplicate_and_sum on a leaf list of its own, then reads
\* the warnings.
InitDedup ==
    /\ bom_query_fails = FALSE
    /\ response = NoResponse
    /\ fa_ifab_units = UnsetAttr({})
    /\ fa_enable = UnsetAttr(FALSE)
    /\ fa_ctl_warnings = UnsetAttr({})
    /\ db = {}
    /\ stack = [c \in Calls |-> <<>>]
    /\ nodes = [c \in Calls |-> <<>>]
    /\ bom_tree = [c \in Calls |-> 0]
    /\ imp_counter = [c \in Calls |-> 0]
    /\ depth_tracker = [c \in Calls |-> 0]
    /\ error = [c \in Calls |-> NoError]
    /\ dedup = [c \in Calls |-> NoDedup]
    /\ result = [c \in Calls |-> <<>>]
    /\ \E l \in LeafLists(MaxLeaves) :
           leaf_parts = [c \in Calls |-> IF c = 1 THEN l ELSE <<>>]
    /\ \E a \in DirectArgSet, first \in {"set_units", "dedup_units"} :
          /\ first = "dedup_units" => a = DefaultDirectArgs
          /\ args = [c \in Calls |-> IF c = 1 THEN a ELSE IdleArgs]
          /\ pc = [c \in Calls |-> IF c = 1 THEN first ELSE "idle"]

NextDedup ==
    \/ SetIfabUnits(1)
    \/ SetEnableIfabCuts(1)
    \/ DedupReadUnits(1)
    \/ DedupSum(1)
    \/ DedupRows(1)
    \/ ReturnResult(1)

SpecDedup == InitDedup /\ [][NextDedup]_vars

\* ------------------------------------------------------------------ C11
\* The records of part p under the internal-fab cut rule with a unit the
\* call allows.
AllowedIfabRecords(c, p) ==
    SelectSeq(LeafRecordsOf(c, p),
              LAMBDA leaf : IsIfabCutRecord(leaf) /\ leaf.unit \in args[c].ifab_units)

PieceCount(leaf) == IF leaf.quantity \in {NoneVal, 0} THEN 1 ELSE leaf.quantity

RECURSIVE SumPieceCount(_)
SumPieceCount(leaves) ==
    IF leaves = <<>> THEN 0 ELSE PieceCount(Head(leaves)) + SumPieceCount(Tail(leaves))

\* The entries one (piece_qty, unit) pair per distinct pair of the records,
\* each with the summed piece counts of its records.
IsPieceRollup(pieces, recs) ==
    LET pairs == {<<recs[i].cut_length, recs[i].unit>> : i \in 1..Len(recs)}
    IN  /\ Len(pieces) = Cardinality(pairs)
        /\ {<<pieces[i].piece_qty, pieces[i].unit>> : i \in 1..Len(pieces)} = pairs
        /\ \A i \in 1..Len(pieces) :
              pieces[i].count =
                  SumPieceCount(SelectSeq(recs,
                      LAMBDA r : r.cut_length = pieces[i].piece_qty
                                 /\ r.unit = pieces[i].unit))

\* C11: when all leaf records of a part come from an Internal Fab parent with
\* a cut length and an allowed unit, its total_qty is the sum of cut_length x
\* piece_count over the records; and for every part internal_fab_cut_list
\* holds exactly one entry per distinct (piece_qty, unit) pair of such
\* records, whose count is the sum of their piece counts.
C11_IfabCutRollup ==
    \A c \in Calls :
        (Returned(c) /\ error[c].kind = "none")
        => \A p \in PartIds :
             LET recs == AllowedIfabRecords(c, p)
             IN  recs # <<>>
                 => /\ Len(RowsOf(c, p)) = 1
                    /\ Len(recs) = Len(LeafRecordsOf(c, p))
                       => RowsOf(c, p)[1].total_qty = SumCutLengthTimesCount(recs)
                    /\ args[c].enable_ifab_cuts
                       => IsPieceRollup(RowsOf(c, p)[1].internal_fab_cut_list, recs)

\* Three records with cut length 35 in mm: total 105, one entry 35 x 3.
C11_Witness ==
    /\ Returned(1)
    /\ args[1].enable_ifab_cuts
    /\ Len(AllowedIfabRecords(1, 6)) = 3
    /\ Len(LeafRecordsOf(1, 6)) = 3
    /\ RowsOf(1, 6)[1].total_qty = 105
    /\ RowsOf(1, 6)[1].internal_fab_cut_list
          = <<[count |-> 3, piece_qty |-> 35, unit |-> <<"m", "m">>]>>

\* ------------------------------------------------------------------ C12
RECURSIVE SumQtyTimesLength(_)
SumQtyTimesLength(leaves) ==
    IF leaves = <<>> THEN 0
    ELSE Head(leaves).cumulative_qty * Head(leaves).cut_length
         + SumQtyTimesLength(Tail(leaves))

\* The entries are one per distinct cut length of the records, each with the
\* summed cumulative quantities of its records.
IsCutRollup(cuts, recs) ==
    LET lengths == {recs[i].cut_length : i \in 1..Len(recs)}
    IN  /\ Len(cuts) = Cardinality(lengths)
        /\ {cuts[i].length : i \in 1..Len(cuts)} = lengths
        /\ \A i \in 1..Len(cuts) :
              cuts[i].quantity =
                  SumCumulativeQty(SelectSeq(recs,
                      LAMBDA r : r.cut_length = cuts[i].length))

\* C12: a part whose leaf records are all CtL with a cut length gets one row
\* whose total_qty is the sum of cumulative_qty x cut_length over the records
\* and whose cut_list has exactly one entry per distinct cut length, with the
\* summed cumulative quantities of the records of that length.
C12_CutListRollup ==
    \A c \in Calls :
        (Returned(c) /\ error[c].kind = "none")
        => \A p \in PartIds :
             LET recs == LeafRecordsOf(c, p)
             IN  (recs # <<>> /\ \A i \in 1..Len(recs) : IsCtlRecord(recs[i]))
                 => /\ Len(RowsOf(c, p)) = 1
                    /\ RowsOf(c, p)[1].total_qty = SumQtyTimesLength(recs)
                    /\ IsCutRollup(RowsOf(c, p)[1].cut_list, recs)

\* Cut lengths 35, 35, 50 with quantity 1 each: total 120, two entries.
C12_Witness ==
    /\ Returned(1)
    /\ LET recs == LeafRecordsOf(1, 7)
       IN  /\ Len(recs) = 3
           /\ \A i \in 1..3 : IsCtlRecord(recs[i]) /\ recs[i].cumulative_qty = 1
           /\ <<recs[1].cut_length, recs[2].cut_length, recs[3].cut_length>>
                 = <<35, 35, 50>>
    /\ RowsOf(1, 7)[1].total_qty = 120
    /\ RowsOf(1, 7)[1].cut_list
          = <<[quantity |-> 2, length |-> 35], [quantity |-> 1, length |-> 50]>>

\* ------------------------------------------------------------------ C13
AtOrBelowLimit(c, level) == args[c].max_depth # NoneVal /\ level >= args[c].max_depth

\* C13: with max_depth set, no call at a level >= max_depth fetches the BOM
\* lines of its part and no node at such a level has children; in the
\* returned tree max_depth_exceeded is true exactly on the assemblies at a
\* level >= max_depth, so never on a non-assembly and never without a limit.
C13_MaxDepthFlag ==
    \A c \in Calls :
        /\ \A i \in 1..Len(stack[c]) :
              stack[c][i].fetched => ~AtOrBelowLimit(c, stack[c][i].level)
        /\ \A i \in 1..Len(nodes[c]) :
              LET n == nodes[c][i]
              IN  /\ AtOrBelowLimit(c, n.level) => n.children = <<>>
                  /\ n.max_depth_exceeded
                        => (n.is_assembly /\ AtOrBelowLimit(c, n.level))
                  /\ bom_tree[c] # 0
                        => (n.max_depth_exceeded
                               <=> (n.is_assembly /\ AtOrBelowLimit(c, n.level)))

\* max_depth 1: an assembly with BOM lines and a non-assembly, both at
\* level 1; only the assembly is flagged and neither has children.
C13_Witness ==
    /\ pc[1] = "flatten"
    /\ args[1].max_depth = 1
    /\ \E i, j \in 1..Len(nodes[1]) :
          /\ nodes[1][i].level = 1 /\ nodes[1][i].is_assembly
          /\ nodes[1][i].max_depth_exceeded
          /\ GetBomItems(nodes[1][i].part_id) # <<>>
          /\ nodes[1][i].children = <<>>
          /\ nodes[1][j].level = 1 /\ ~nodes[1][j].is_assembly
          /\ ~nodes[1][j].max_depth_exceeded

\* ------------------------------------------------------------------ C14
\* The record is an assembly emitted because its node has no children (not a
\* Purchased Assy kept whole because it is not expanded).
EmittedAsChildless(c, leaf) ==
    /\ leaf.is_assembly
    /\ ~(leaf.part_type = "Purchased Assy" /\ ~args[c].expand_purchased_assemblies)

\* C14: an assembly emitted as a leaf because it has no children carries
\* exactly one of the two flags: max_depth_exceeded (and not
\* assembly_no_children) when the depth limit stopped its expansion,
\* assembly_no_children (and not max_depth_exceeded) when its BOM was fetched
\* and is empty; no leaf record has both flags.
C14_ExactlyOneFlag ==
    \A c \in Calls :
        \A i \in 1..Len(leaf_parts[c]) :
            LET leaf == leaf_parts[c][i]
            IN  /\ ~(leaf.max_depth_exceeded /\ leaf.assembly_no_children)
                /\ EmittedAsChildless(c, leaf)
                   => /\ leaf.max_depth_exceeded # leaf.assembly_no_children
                      /\ leaf.max_depth_exceeded <=> AtOrBelowLimit(c, leaf.level)
                      /\ leaf.assembly_no_children
                            => GetBomItems(leaf.part_id) = <<>>

\* max_depth 2: one assembly with an empty BOM at level 1 (flagged
\* assembly_no_children) and one stopped at level 2 (flagged
\* max_depth_exceeded).
C14_Witness ==
    /\ args[1].max_depth = 2
    /\ \E i, j \in 1..Len(leaf_parts[1]) :
          /\ EmittedAsChildless(1, leaf_parts[1][i])
          /\ leaf_parts[1][i].level = 1
          /\ leaf_parts[1][i].assembly_no_children
          /\ ~leaf_parts[1][i].max_depth_exceeded
          /\ EmittedAsChildless(1, leaf_parts[1][j])
          /\ leaf_parts[1][j].level = 2
          /\ leaf_parts[1][j].max_depth_exceeded
          /\ ~leaf_parts[1][j].assembly_no_children

\* ------------------------------------------------------------------ C15
\* Indices of the nodes below node i of the call's tree.
RECURSIVE NodesBelow(_, _)
NodesBelow(c, i) ==
    LET kids == {nodes[c][i].children[k] : k \in 1..Len(nodes[c][i].children)}
    IN  kids \cup UNION {NodesBelow(c, k) : k \in kids}

\* Number of leaf records of the call made from the nodes of S.
RecordsFrom(c, S) ==
    Cardinality({i \in 1..Len(leaf_parts[c]) : leaf_parts[c][i].node \in S})

\* Node i is a Purchased Assy with children.
PurchasedWithChildren(c, i) ==
    nodes[c][i].part_type = "Purchased Assy" /\ nodes[c][i].children # <<>>

\* The nodes the flattener emits when it reaches them: non-assemblies and
\* assemblies without children.
EmittedWhenReached(c, i) ==
    ~nodes[c][i].is_assembly \/ nodes[c][i].children = <<>>

\* C15: for a Purchased Assy node with children, the flattener with
\* expand_purchased_assemblies = false emits exactly one leaf record for the
\* assembly and none for the nodes below it; with true it emits none for the
\* assembly and the leaf records of the nodes below it instead.
C15_PurchasedToggle ==
    \A c \in Calls :
        pc[c] \notin {"start", "traverse", "raised", "flatten", "idle"}
        /\ error[c].kind = "none"
        => \A i \in 1..Len(nodes[c]) :
              PurchasedWithChildren(c, i)
              => IF args[c].expand_purchased_assemblies
                 THEN /\ RecordsFrom(c, {i}) = 0
                      /\ \A k \in NodesBelow(c, i) :
                            RecordsFrom(c, {k})
                               = IF EmittedWhenReached(c, k) THEN 1 ELSE 0
                 ELSE /\ RecordsFrom(c, {i}) = 1
                      /\ RecordsFrom(c, NodesBelow(c, i)) = 0

\* Root -> purchased assembly -> sub-assembly -> part: with expansion the
\* part two levels below the purchased assembly is emitted.
C15_Witness ==
    /\ pc[1] = "set_units"
    /\ args[1].expand_purchased_assemblies
    /\ \E i \in 1..Len(nodes[1]) :
          /\ PurchasedWithChildren(1, i)
          /\ RecordsFrom(1, {i}) = 0
          /\ \E k \in NodesBelow(1, i) :
                /\ nodes[1][k].level = nodes[1][i].level + 2
                /\ RecordsFrom(1, {k}) = 1

\* The same tree without expansion: one record, for the assembly itself.
C15_WitnessKeptWhole ==
    /\ pc[1] = "set_units"
    /\ ~args[1].expand_purchased_assemblies
    /\ \E i \in 1..Len(nodes[1]) :
          /\ PurchasedWithChildren(1, i)
          /\ RecordsFrom(1, {i}) = 1
          /\ Cardinality(NodesBelow(1, i)) = 2
          /\ Len(leaf_parts[1]) = 1

\* ------------------------------------------------------------------ C16
\* Node k lies below a Purchased Assy node that the call does not expand.
BelowUnexpandedPurchased(c, k) ==
    /\ ~args[c].expand_purchased_assemblies
    /\ \E i \in 1..Len(nodes[c]) :
          nodes[c][i].part_type = "Purchased Assy" /\ k \in NodesBelow(c, i)

Flattened(c) ==
    pc[c] \notin {"start", "traverse", "raised", "flatten", "idle"}
    /\ error[c].kind = "none"

C16_WitnessLeafRoot ==
    /\ Flattened(1)
    /\ nodes[1][1].part_type = "TLA" /\ ~nodes[1][1].is_assembly
    /\ Len(leaf_parts[1]) = 1
    /\ leaf_parts[1][1].part_type = "TLA"

\* ===================================================== calls in sequence
\* Two calls of get_flat_bom in one process, the second made after the first
\* has returned, on the same unchanged database (rows of SequentialRows).
SequentialRows == ConcurrentRows \cup {19}

InitSequential ==
    /\ InitCommon
    /\ db \in {S \in Databases : S \subseteq SequentialRows}
    /\ args \in [Calls -> ConcurrentArgSet]
    /\ pc = [c \in Calls |-> "start"]

SecondCall == pc[1] = "done" /\ Step(2)

NextSequential == Step(1) \/ SecondCall

SpecSequential == InitSequential /\ [][NextSequential]_vars

\* ------------------------------------------------------------------ C17
\* C17: two calls of get_flat_bom with the same arguments on an unchanged
\* BOM return identical rows, in the same order and with the same values
\* (and the same counts and warnings); what a call returns is what it
\* computes from its own arguments, whatever call was made before it.
C17_Idempotent ==
    (Returned(1) /\ Returned(2))
    => /\ args[1] = args[2] => result[1] = result[2]
       /\ \A c \in Calls :
             error[c].kind = "none" => result[c] = ResultAlone(c)

\* Two calls with the cut list enabled for mm on an Internal Fab BOM: the
\* same non-empty rows twice.
C17_Witness ==
    /\ Returned(1) /\ Returned(2)
    /\ args[1] = args[2]
    /\ args[1].enable_ifab_cuts /\ args[1].ifab_units = {<<"m", "m">>}
    /\ result[2][1] # <<>>
    /\ \E i \in 1..Len(result[2][1]) :
          result[2][1][i].internal_fab_cut_list # <<>>
    /\ result[1] = result[2]

\* A call after one with other settings still returns its own result.
C17_WitnessAfterOther ==
    /\ Returned(1) /\ Returned(2)
    /\ args[1].enable_ifab_cuts /\ args[1].ifab_units = {<<"m", "m">>}
    /\ ~args[2].enable_ifab_cuts /\ args[2].ifab_units = {}
    /\ result[1][1] # <<>> /\ result[2][1] # <<>>
    /\ result[1] # result[2]

\* ------------------------------------------------------------------ C18
\* C18: when the internal-fab cut feature is disabled (by the caller, or
\* because nothing was stored on the function), no row the aggregator
\* returns has the key internal_fab_cut_list: the key is absent, not mapped
\* to an empty value.
C18_KeyAbsentWhenDisabled ==
    \A c \in Calls :
        ~args[c].enable_ifab_cuts
        => /\ \A i \in 1..Len(dedup[c].flat_bom) :
                 "internal_fab_cut_list" \notin DOMAIN dedup[c].flat_bom[i]
           /\ Returned(c)
              => \A i \in 1..Len(result[c][1]) :
                    "internal_fab_cut_list" \notin DOMAIN result[c][1][i]

\* Feature off, mm allowed, an internal-fab record in mm: the cut entries
\* were collected, and the returned row has no such key.
C18_Witness ==
    /\ Returned(1)
    /\ ~args[1].enable_ifab_cuts
    /\ args[1].ifab_units = {<<"m", "m">>}
    /\ dedup[1].acc[6].internal_fab_cut_list # <<>>
    /\ Len(RowsOf(1, 6)) = 1
    /\ "internal_fab_cut_list" \notin DOMAIN RowsOf(1, 6)[1]

\* Nothing stored on the function: the feature is off by default.
C18_WitnessDefault ==
    /\ Returned(1)
    /\ ~fa_enable.has
    /\ result[1][1] # <<>>
    /\ \A i \in 1..Len(result[1][1]) :
          "internal_fab_cut_list" \notin DOMAIN result[1][1][i]

\* ------------------------------------------------------------------ C19
\* t occurs in s as a contiguous piece.
Contains(s, t) ==
    \E i \in 0..(Len(s) - Len(t)) : SubSeq(s, i + 1, i + Len(t)) = t

\* The non-blank notes of the records, in order, joined with ", ".
RECURSIVE JoinedNotes(_)
JoinedNotes(recs) ==
    IF recs = <<>> THEN <<>>
    ELSE LET rest == JoinedNotes(Tail(recs))
             note == Head(recs).note
         IN  IF Strip(note) = <<>> THEN rest
             ELSE IF rest = <<>> THEN note
             ELSE note \o <<",", " ">> \o rest

OtherCategory == 15

\* The category_mappings a caller passes: the plugin's, none, fabrication
\* only, keys with empty lists, and overlapping sets.
MappingChoices ==
    LET three == {"fabrication", "commercial", "cut_to_length"}
    IN  { CategoryMappings,
          [k \in {} |-> {}],
          [k \in {"fabrication"} |-> {FabCategory}],
          [k \in three |-> {}],
          [k \in three |->
              CASE k = "fabrication" -> {FabCategory, ComlCategory, CtlCategory}
                [] k = "commercial" -> {ComlCategory, CtlCategory}
                [] OTHER -> {CtlCategory}] }

\* The BOM line notes a caller passes: none, a number, a number with a unit,
\* zero, and text without a digit.
NoteChoices ==
    { <<>>, <<"3", "5">>, <<"5", "0", "m", "m">>, <<"0">>, <<"m", "m">>, <<" ">> }

\* The arguments of one call of categorize_part. A caller may leave
\* category_mappings out (None): mappings_given is then FALSE and the
\* category_mappings field holds nothing.
CategorizeInputs ==
    { in \in [is_assembly : BOOLEAN, is_top_level : BOOLEAN,
              default_supplier_id : {NoneVal, InternalCompany, ExternalCompany},
              internal_supplier_ids : {{}, InternalSupplierIds},
              part_category_id : {NoneVal, FabCategory, ComlCategory, CtlCategory, OtherCategory},
              mappings_given : BOOLEAN,
              category_mappings : MappingChoices,
              bom_item_notes : NoteChoices] :
          ~in.mappings_given => DOMAIN in.category_mappings = {} }

\* A wrong default: missing mappings replaced by the plugin's configured ones.
CategoryMappingsOrPlugin(given, category_mappings) ==
    IF ~given THEN CategoryMappings ELSE category_mappings

\* categorize_part's default: missing category_mappings become the empty dict.
CategoryMappingsOrEmpty(given, category_mappings) ==
    IF ~given THEN [k \in {} |-> {}] ELSE category_mappings

\* One call of categorize_part on arguments of the caller's choice (kept in
\* args[1]; its return value goes to result[1]).
InitCategorize ==
    /\ InitCommon
    /\ db = {}
    /\ \E in \in CategorizeInputs : args = [c \in Calls |-> IF c = 1 THEN in ELSE IdleArgs]
    /\ pc = [c \in Calls |-> IF c = 1 THEN "categorize" ELSE "idle"]

Categorize ==
    /\ pc[1] = "categorize"
    /\ result' = [result EXCEPT ![1] =
          CategorizePart(args[1].is_assembly, args[1].is_top_level,
                         args[1].default_supplier_id, args[1].internal_supplier_ids,
                         args[1].part_category_id,
                         CategoryMappingsOrEmpty(args[1].mappings_given,
                                                 args[1].category_mappings),
                         args[1].bom_item_notes)]
    /\ pc' = [pc EXCEPT ![1] = "categorized"]
    /\ UNCHANGED <<db, bom_query_fails, response, args, globals, stack, nodes, bom_tree, imp_counter,
                   depth_tracker, error, leaf_parts, dedup>>

SpecCategorize == InitCategorize /\ [][Categorize]_vars

\* ------------------------------------------------------------------ C20
\* The ids of a category set of the mappings (none when the key is missing).
CategorySet(in, kind) ==
    IF kind \in DOMAIN in.category_mappings THEN in.category_mappings[kind] ELSE {}

InternalSupplier(in) ==
    in.default_supplier_id # NoneVal
    /\ in.default_supplier_id \in in.internal_supplier_ids

\* The note contains a number the parser accepts: it has a digit.
HasParseableNumber(note) == \E i \in 1..Len(note) : IsDigit(note[i])

\* The tag of the first matching rule, in the stated order.
FirstMatchingRule(in) ==
    IF in.is_top_level THEN "TLA"
    ELSE IF in.is_assembly
    THEN IF in.part_category_id \in CategorySet(in, "fabrication") /\ InternalSupplier(in)
         THEN "Internal Fab"
         ELSE IF in.default_supplier_id # NoneVal /\ ~InternalSupplier(in)
         THEN "Purchased Assy"
         ELSE "Assy"
    ELSE IF in.part_category_id = NoneVal \/ DOMAIN in.category_mappings = {}
    THEN "Other"
    ELSE IF in.part_category_id \in CategorySet(in, "cut_to_length")
    THEN IF HasParseableNumber(in.bom_item_notes) THEN "CtL" ELSE "Fab"
    ELSE IF in.part_category_id \in CategorySet(in, "commercial") THEN "Coml"
    ELSE IF in.part_category_id \in CategorySet(in, "fabrication") THEN "Fab"
    ELSE "Other"

\* C20: for every combination of inputs categorize_part returns the tag of
\* the first matching rule: top level -> TLA; assembly in the fabrication
\* set with an internal default supplier -> Internal Fab; assembly with a
\* default supplier that is not internal -> Purchased Assy; non-assembly
\* with a category id and non-empty mappings -> CtL / Fab / Coml / Fab by
\* set and note; any other assembly -> Assy; otherwise Other.
C20_CategorizerPriority ==
    pc[1] = "categorized" => result[1] = FirstMatchingRule(args[1])

\* An assembly of the fabrication set with an external default supplier is a
\* Purchased Assy, not Internal Fab.
C20_Witness ==
    /\ pc[1] = "categorized"
    /\ ~args[1].is_top_level /\ args[1].is_assembly
    /\ args[1].part_category_id \in CategorySet(args[1], "fabrication")
    /\ args[1].default_supplier_id = ExternalCompany
    /\ args[1].internal_supplier_ids = InternalSupplierIds
    /\ result[1] = "Purchased Assy"

\* A part of the cut-to-length set whose note has no number is Fab.
C20_WitnessCtlFallback ==
    /\ pc[1] = "categorized"
    /\ ~args[1].is_top_level /\ ~args[1].is_assembly
    /\ args[1].part_category_id \in CategorySet(args[1], "cut_to_length")
    /\ args[1].bom_item_notes = <<"m", "m">>
    /\ result[1] = "Fab"

\* ------------------------------------------------------------------ C21
\* The tags categorize_part can return.
CategoryTags ==
    {"TLA", "Purchased Assy", "Coml", "Fab", "CtL", "Internal Fab", "Assy", "Other"}

\* category_mappings is the empty dict or was not passed.
MappingsEmptyOrMissing(in) ==
    ~in.mappings_given \/ DOMAIN in.category_mappings = {}

\* C21: with category_mappings empty or missing, categorize_part returns a
\* tag (it does not raise) and, for a part that is not top-level, the tag is
\* Other for every non-assembly and Assy for every assembly that has no
\* default supplier or whose default supplier is internal.
C21_EmptyMappings ==
    (pc[1] = "categorized" /\ MappingsEmptyOrMissing(args[1])) =>
        /\ result[1] \in CategoryTags
        /\ (~args[1].is_top_level /\ ~args[1].is_assembly) => result[1] = "Other"
        /\ (~args[1].is_top_level /\ args[1].is_assembly
              /\ (args[1].default_supplier_id = NoneVal \/ InternalSupplier(args[1])))
             => result[1] = "Assy"

\* Mappings left out: a non-assembly of the plugin's cut-to-length category
\* whose note has a length is Other.
C21_Witness ==
    /\ pc[1] = "categorized"
    /\ ~args[1].mappings_given
    /\ ~args[1].is_top_level /\ ~args[1].is_assembly
    /\ args[1].part_category_id = CtlCategory
    /\ args[1].bom_item_notes = <<"3", "5">>
    /\ result[1] = "Other"

\* Mappings passed empty: an assembly of the plugin's fabrication category
\* with an internal default supplier is Assy.
C21_WitnessAssembly ==
    /\ pc[1] = "categorized"
    /\ args[1].mappings_given /\ DOMAIN args[1].category_mappings = {}
    /\ ~args[1].is_top_level /\ args[1].is_assembly
    /\ args[1].part_category_id = FabCategory
    /\ InternalSupplier(args[1])
    /\ result[1] = "Assy"

\* ------------------------------------------------------------------ C22
\* The greatest level of the nodes the traversal of call c visited (0 when
\* it visited none).
RECURSIVE GreatestLevel(_)
GreatestLevel(ns) ==
    IF ns = <<>> THEN 0 ELSE Max(Head(ns).level, GreatestLevel(Tail(ns)))

\* The parts k BOM lines below part p.
RECURSIVE PartsAtDepth(_, _)
PartsAtDepth(p, k) ==
    IF k = 0 THEN {p}
    ELSE UNION { SubParts(q) : q \in PartsAtDepth(p, k - 1) }

\* The BOM of the root of call c is deeper than d.
BomDeeperThan(c, d) == RootExists(c) /\ PartsAtDepth(args[c].part_id, d + 1) # {}

\* The fourth element of the returned tuple.
MaxDepthReached(c) == result[c][4]

\* What C22 says of a returned call.
DepthReport(c) ==
    /\ MaxDepthReached(c) = GreatestLevel(nodes[c])
    /\ args[c].max_depth # NoneVal =>
          /\ MaxDepthReached(c) <= args[c].max_depth
          /\ BomDeeperThan(c, args[c].max_depth) =>
                MaxDepthReached(c) = args[c].max_depth

\* C22 (as stated): the max-depth-reached value returned by get_flat_bom is
\* the greatest level of any node the traversal visited; with max_depth = d
\* it never exceeds d and equals d whenever the BOM is deeper than d.
C22_Original ==
    \A c \in Calls : Returned(c) => DepthReport(c)

\* C22 (amended): this holds for every call whose traversal completed; a
\* call whose traversal was aborted by the cycle error returns 0, whatever
\* levels it visited before.
C22_MaxDepthReached ==
    \A c \in Calls :
        Returned(c) =>
            IF error[c] = NoError THEN DepthReport(c) ELSE MaxDepthReached(c) = 0

\* A BOM four levels deep traversed with max_depth = 2 reports 2.
C22_Witness ==
    /\ Returned(1) /\ error[1] = NoError
    /\ args[1].max_depth = 2
    /\ BomDeeperThan(1, 2)
    /\ MaxDepthReached(1) = 2

\* Without a limit the deepest level is reported, here 3.
C22_WitnessNoLimit ==
    /\ Returned(1) /\ error[1] = NoError
    /\ args[1].max_depth = NoneVal
    /\ MaxDepthReached(1) = 3

\* A cycle closed at level 2: level 1 was visited and 0 is returned.
C22_WitnessAborted ==
    /\ Returned(1) /\ error[1].kind = "ValueError"
    /\ GreatestLevel(nodes[1]) = 1
    /\ MaxDepthReached(1) = 0

\* ------------------------------------------------------------------ C23
\* The nodes of the tree traverse_bom returned to call c (none when the
\* traversal did not return one).
TreeNodes(c) ==
    IF bom_tree[c] = 0 THEN {} ELSE {bom_tree[c]} \cup NodesBelow(c, bom_tree[c])

InternalFabNodes(c) == {i \in TreeNodes(c) : nodes[c][i].part_type = "Internal Fab"}

\* The second element of the returned tuple.
ImpCount(c) == result[c][2]

\* C23: the internal-fab count returned by get_flat_bom is the number of
\* nodes of the call's traversal tree whose category is Internal Fab, every
\* occurrence of a part counting, and it counts from zero in every call:
\* nothing of an earlier call is in it.
C23_InternalFabCount ==
    \A c \in Calls : Returned(c) => ImpCount(c) = Cardinality(InternalFabNodes(c))

\* Two calls in sequence on a BOM in which the Internal Fab part occurs on
\* two paths: each call reports 2.
C23_Witness ==
    /\ Returned(1) /\ Returned(2)
    /\ \E i, j \in InternalFabNodes(2) :
          /\ i # j
          /\ nodes[2][i].part_id = nodes[2][j].part_id
          /\ nodes[2][i].level # nodes[2][j].level
    /\ ImpCount(1) = 2
    /\ ImpCount(2) = 2

\* ------------------------------------------------------------------ C24
\* C24: the rows the aggregator returns are in ascending order of IPN under
\* string comparison: of two consecutive rows the first has the smaller or
\* the same IPN.
C24_RowsOrderedByIpn ==
    \A c \in Calls :
        Returned(c) =>
            \A i \in 1..(Len(result[c][1]) - 1) :
                StrLeq(result[c][1][i].ipn, result[c][1][i + 1].ipn)

\* Three rows whose parts were met in descending order of IPN.
C24_Witness ==
    /\ Returned(1)
    /\ Len(result[1][1]) = 3
    /\ Len(leaf_parts[1]) = 3
    /\ \A i \in 1..2 : StrLess(leaf_parts[1][i + 1].ipn, leaf_parts[1][i].ipn)
    /\ \A i \in 1..2 : StrLess(result[1][1][i].ipn, result[1][1][i + 1].ipn)

\* ============================================================= views.py
\* FlatBOMView.get: the request of call 1 (its parsed query parameters are
\* args[1]) is answered through get_flat_bom and the response serializers.
\* All parts are active; names and links are never blank.

\* A JSON value of the response, by its Python type.
PyList(items) == [type |-> "list", items |-> items]

PyStr == [type |-> "str", items |-> {}]

\* BOMWarningSerializer accepts the warning: a type, and a part id or None.
ValidWarning(w) ==
    /\ w.type \in {"unit_mismatch", "inactive_part", "assembly_no_children",
                   "max_depth_reached"}
    /\ w.part_id = NoneVal \/ w.part_id \in PartIds

\* FlatBOMItemSerializer accepts the enriched row (ipn, unit and note may
\* be blank, the part type may not).
ValidItem(row) ==
    /\ row.part_id \in PartIds
    /\ row.part_type # ""

\* FlatBOMResponseSerializer.validate_metadata: warnings is a list of valid
\* warnings, and every other value is a list.
ValidateMetadata(value) ==
    /\ "warnings" \in DOMAIN value =>
          /\ value["warnings"].type = "list"
          /\ \A w \in value["warnings"].items : ValidWarning(w)
    /\ \A key \in DOMAIN value \ {"warnings"} : value[key].type = "list"

\* The warnings the view collects: those of get_flat_bom, one summary when a
\* row was stopped by the depth limit, and per row assembly_no_children and
\* unit mismatch (rows that are not CtL).
ViewWarnings(c) ==
    LET flat_bom == result[c][1]
        rows == {flat_bom[i] : i \in 1..Len(flat_bom)}
    IN  result[c][3]
        \cup (IF \E r \in rows : r.max_depth_exceeded
              THEN {[type |-> "max_depth_reached", part_id |-> NoneVal, note |-> <<>>]}
              ELSE {})
        \cup {[type |-> "assembly_no_children", part_id |-> r.part_id, note |-> <<>>] :
                r \in {x \in rows : x.assembly_no_children}}
        \cup {[type |-> "unit_mismatch", part_id |-> r.part_id, note |-> r.note] :
                r \in {x \in rows : /\ x.part_type # "CtL"
                                     /\ CheckUnitMismatch(x.note, PartTable[x.part_id].units)}}

\* "metadata": {"warnings": warnings, "cutlist_units_for_ifab": cutlist_units}
\* where cutlist_units is the plugin setting, a string such as "mm,in,cm".
ResponseMetadata(c) ==
    [key \in {"warnings", "cutlist_units_for_ifab"} |->
        IF key = "warnings" THEN PyList(ViewWarnings(c)) ELSE PyStr]

\* The query parameters the view accepts and hands on: max_depth 0 means no
\* limit and reaches get_flat_bom as None.
RequestArgSet ==
    [part_id : {1, 6, MissingPartId}, max_depth : {NoneVal} \cup 1..MaxDepthArg,
     expand_purchased_assemblies : BOOLEAN, enable_ifab_cuts : BOOLEAN,
     ifab_units : UnitSets]

ViewRows == {1, 2, 3, 4, 9, 10, 14}

InitView ==
    /\ InitCommon
    /\ db \in {S \in Databases : S \subseteq ViewRows}
    /\ \E a \in RequestArgSet : args = [c \in Calls |-> IF c = 1 THEN a ELSE IdleArgs]
    /\ pc = [c \in Calls |-> IF c = 1 THEN "request" ELSE "idle"]

\* except Part.DoesNotExist: 404.
ViewPartNotFound(c) ==
    /\ pc[c] = "request"
    /\ args[c].part_id \notin PartIds
    /\ response' = [status |-> 404, detail |-> "Part not found"]
    /\ pc' = [pc EXCEPT ![c] = "responded"]
    /\ UNCHANGED <<db, bom_query_fails, args, globals, stack, nodes, bom_tree,
                   imp_counter, depth_tracker, error, leaf_parts, dedup, result>>

\* if not part.assembly: 400.
ViewNotAssembly(c) ==
    /\ pc[c] = "request"
    /\ args[c].part_id \in PartIds
    /\ ~PartTable[args[c].part_id].assembly
    /\ response' = [status |-> 400, detail |-> "Part is not an assembly"]
    /\ pc' = [pc EXCEPT ![c] = "responded"]
    /\ UNCHANGED <<db, bom_query_fails, args, globals, stack, nodes, bom_tree,
                   imp_counter, depth_tracker, error, leaf_parts, dedup, result>>

\* The part is an assembly: get_flat_bom is called.
ViewCallGetFlatBom(c) ==
    /\ pc[c] = "request"
    /\ args[c].part_id \in PartIds
    /\ PartTable[args[c].part_id].assembly
    /\ pc' = [pc EXCEPT ![c] = "start"]
    /\ UNCHANGED <<db, bom_query_fails, response, args, globals, stack, nodes,
                   bom_tree, imp_counter, depth_tracker, error, leaf_parts,
                   dedup, result>>

\* After get_flat_bom returned: warnings, enrichment, response_data, and
\* serializer.is_valid(raise_exception=True); 200 with the validated data,
\* or 500 from the except clause when a serializer raised.
ViewRespond(c) ==
    /\ pc[c] = "done"
    /\ LET flat_bom == result[c][1]
           valid == /\ \A w \in ViewWarnings(c) \ result[c][3] : ValidWarning(w)
                    /\ \A i \in 1..Len(flat_bom) : ValidItem(flat_bom[i])
                    /\ ValidateMetadata(ResponseMetadata(c))
       IN  response' = IF valid
                       THEN [status |-> 200, detail |-> "ok"]
                       ELSE [status |-> 500, detail |-> "Failed to generate flat BOM"]
    /\ pc' = [pc EXCEPT ![c] = "responded"]
    /\ UNCHANGED <<db, bom_query_fails, args, globals, stack, nodes, bom_tree,
                   imp_counter, depth_tracker, error, leaf_parts, dedup, result>>

NextView ==
    \/ ViewPartNotFound(1)
    \/ ViewNotAssembly(1)
    \/ ViewCallGetFlatBom(1)
    \/ FetchPart(1)
    \/ CycleDetected(1)
    \/ Visit(1)
    \/ Recurse(1)
    \/ Return(1)
    \/ HandleException(1)
    \/ Flatten(1)
    \/ SetIfabUnits(1)
    \/ SetEnableIfabCuts(1)
    \/ DedupReadUnits(1)
    \/ DedupSum(1)
    \/ DedupRows(1)
    \/ ReturnResult(1)
    \/ ViewRespond(1)

SpecView == InitView /\ [][NextView]_vars

\* ------------------------------------------------------------------ C25
\* C25: for every existing assembly part and valid query parameters the GET
\* is answered with HTTP 200: the response body the view builds, with its
\* metadata of the warnings list and the cutlist_units_for_ifab string,
\* passes FlatBOMResponseSerializer validation.
C25_ViewReturns200 ==
    (pc[1] = "responded" /\ RootExists(1) /\ PartTable[args[1].part_id].assembly)
    => /\ response.status = 200
       /\ ValidateMetadata(ResponseMetadata(1))

\* ------------------------------------------------------------------ C26
\* Node i of the call's tree is a Fab or Coml child of an Internal Fab node.
IsIfabChildNode(c, i) ==
    /\ nodes[c][i].part_type \in {"Fab", "Coml"}
    /\ \E j \in 1..Len(nodes[c]) :
          /\ nodes[c][j].part_type = "Internal Fab"
          /\ \E k \in 1..Len(nodes[c][j].children) : nodes[c][j].children[k] = i

\* The records of part p made from children of an Internal Fab node.
IfabChildRecords(c, p) ==
    SelectSeq(LeafRecordsOf(c, p), LAMBDA leaf : IsIfabChildNode(c, leaf.node))

\* Sum of the quantities of the BOM lines the records' nodes hang on.
RECURSIVE SumEdgeQty(_, _)
SumEdgeQty(c, leaves) ==
    IF leaves = <<>> THEN 0
    ELSE nodes[c][Head(leaves).node].quantity + SumEdgeQty(c, Tail(leaves))

RECURSIVE SumCount(_)
SumCount(pieces) ==
    IF pieces = <<>> THEN 0 ELSE Head(pieces).count + SumCount(Tail(pieces))

\* C26: in the pipeline no leaf record has a quantity of its own, so the
\* piece count is always 1: a Fab or Coml child of an Internal Fab assembly
\* adds the quantity of its own BOM line to total_qty once per occurrence in
\* the tree, whatever the cumulative quantity of its parent; with the cut
\* list enabled for its unit every occurrence counts 1 in the cut list.
C26_PieceCountOne ==
    \A c \in Calls :
        (Returned(c) /\ error[c].kind = "none") =>
            /\ \A i \in 1..Len(leaf_parts[c]) :
                  /\ leaf_parts[c][i].quantity = NoneVal
                  /\ PieceCountInc(leaf_parts[c][i]) = 1
                  /\ IsIfabChildNode(c, leaf_parts[c][i].node) =>
                        /\ IsIfabCutRecord(leaf_parts[c][i])
                        /\ leaf_parts[c][i].cut_length
                              = nodes[c][leaf_parts[c][i].node].quantity
            /\ \A p \in PartIds :
                  LET recs == LeafRecordsOf(c, p)
                      kids == IfabChildRecords(c, p)
                  IN  (recs # <<>> /\ kids = recs) =>
                        /\ RowsOf(c, p)[1].total_qty = SumEdgeQty(c, kids)
                        /\ (args[c].enable_ifab_cuts
                             /\ \A i \in 1..Len(kids) : kids[i].unit \in args[c].ifab_units)
                            => SumCount(RowsOf(c, p)[1].internal_fab_cut_list) = Len(kids)

\* The root needs 3 of Internal Fab part 4, whose BOM line for part 6 has
\* quantity 5: total 5 and one cut-list entry of count 1, with a cumulative
\* quantity of 15.
C26_Witness ==
    /\ Returned(1) /\ error[1].kind = "none"
    /\ args[1].enable_ifab_cuts /\ args[1].ifab_units = {<<"m", "m">>}
    /\ Len(LeafRecordsOf(1, 6)) = 1
    /\ IfabChildRecords(1, 6) = LeafRecordsOf(1, 6)
    /\ LeafRecordsOf(1, 6)[1].cumulative_qty = 15
    /\ RowsOf(1, 6)[1].total_qty = 5
    /\ RowsOf(1, 6)[1].internal_fab_cut_list
          = <<[count |-> 1, piece_qty |-> 5, unit |-> <<"m", "m">>]>>

\* Two occurrences of part 6 under the Internal Fab part (lines of quantity
\* 5 and 2): total 7.
C26_WitnessTwoOccurrences ==
    /\ Returned(1) /\ error[1].kind = "none"
    /\ Len(LeafRecordsOf(1, 6)) = 2
    /\ IfabChildRecords(1, 6) = LeafRecordsOf(1, 6)
    /\ SumCumulativeQty(LeafRecordsOf(1, 6)) = 21
    /\ RowsOf(1, 6)[1].total_qty = 7

\* ------------------------------------------------------------------ C27
\* C27: when at least one leaf record of a part has assembly_no_children the
\* row of the part has it, and likewise for max_depth_exceeded, in whatever
\* order the occurrences of the part are met.
C27_FlagsFromAnyRecord ==
    \A c \in Calls :
        (Returned(c) /\ error[c].kind = "none") =>
            \A p \in PartIds :
                LET recs == LeafRecordsOf(c, p)
                IN  /\ (\E i \in 1..Len(recs) : recs[i].assembly_no_children)
                       => RowsOf(c, p)[1].assembly_no_children
                    /\ (\E i \in 1..Len(recs) : recs[i].max_depth_exceeded)
                       => RowsOf(c, p)[1].max_depth_exceeded

\* ------------------------------------------------------------------ C28
RECURSIVE SumQuantityTimesLength(_)
SumQuantityTimesLength(cuts) ==
    IF cuts = <<>> THEN 0
    ELSE Head(cuts).quantity * Head(cuts).length + SumQuantityTimesLength(Tail(cuts))

\* C28: a row with a cut list (not null) has a total that the cut list
\* accounts for entirely: total_qty is the sum of quantity x length over the
\* entries, also when the part is reached by a BOM line whose note has a
\* length and by another whose note has none.
C28_CutListAccountsForTotal ==
    \A c \in Calls :
        (Returned(c) /\ error[c].kind = "none") =>
            \A i \in 1..Len(result[c][1]) :
                result[c][1][i].cut_list # <<>>
                => result[c][1][i].total_qty
                      = SumQuantityTimesLength(result[c][1][i].cut_list)

\* ================================================ failing BOM queries
\* One call of get_flat_bom while the BomItem query of get_bom_items may
\* start and stop failing at any moment (the database drops out and comes
\* back).
FetchFailureRows == {1, 2, 3, 4, 9, 10, 15, 16}

FetchFailureArgSet == {a \in ArgSet : a.part_id = 1 /\ ~a.enable_ifab_cuts}

InitFetchFailure ==
    /\ InitCommon
    /\ db \in {S \in Databases : S \subseteq FetchFailureRows}
    /\ \E a \in FetchFailureArgSet :
          args = [c \in Calls |-> IF c = 1 THEN a ELSE IdleArgs]
    /\ pc = [c \in Calls |-> IF c = 1 THEN "start" ELSE "idle"]

\* The query starts or stops failing while the traversal runs.
BomQueryOutage ==
    /\ pc[1] = "traverse"
    /\ bom_query_fails' = ~bom_query_fails
    /\ UNCHANGED <<db, response, args, globals, pc, stack, nodes, bom_tree,
                   imp_counter, depth_tracker, error, leaf_parts, dedup, result>>

NextFetchFailure ==
    \/ BomQueryOutage
    \/ FetchPart(1)
    \/ CycleDetected(1)
    \/ Visit(1)
    \/ Recurse(1)
    \/ Return(1)
    \/ HandleException(1)
    \/ Flatten(1)
    \/ SetIfabUnits(1)
    \/ SetEnableIfabCuts(1)
    \/ DedupReadUnits(1)
    \/ DedupSum(1)
    \/ DedupRows(1)
    \/ ReturnResult(1)

SpecFetchFailure == InitFetchFailure /\ [][NextFetchFailure]_vars

\* ------------------------------------------------------------------ C29
\* Node i is an assembly whose BOM lines were asked for and which has no
\* children.
FetchedChildless(c, i) ==
    /\ nodes[c][i].is_assembly
    /\ ~AtOrBelowLimit(c, nodes[c][i].level)
    /\ nodes[c][i].children = <<>>

\* Node i is a Purchased Assy the call keeps whole.
KeptWhole(c, i) ==
    nodes[c][i].part_type = "Purchased Assy" /\ ~args[c].expand_purchased_assemblies

\* The leaf records made from node i.
RecordsOfNode(c, i) == SelectSeq(leaf_parts[c], LAMBDA leaf : leaf.node = i)

\* An error is recorded only by the cycle check: a failed query raises
\* nothing in traverse_bom.
OnlyCycleErrors(c) ==
    /\ error[c].kind \in {"none", "ValueError"}
    /\ error[c].kind = "ValueError" =>
          \E i \in 1..Len(nodes[c]) : nodes[c][i].part_id = error[c].part_id

\* C29 (as stated): a failed fetch of the BOM lines of an assembly is not
\* propagated; the assembly has no children and is emitted as a leaf with
\* assembly_no_children = true.
C29_Original ==
    \A c \in Calls :
        /\ OnlyCycleErrors(c)
        /\ \A i \in 1..Len(nodes[c]) :
              nodes[c][i].bom_fetch_failed =>
                  /\ nodes[c][i].children = <<>>
                  /\ Flattened(c) =>
                        /\ Len(RecordsOfNode(c, i)) = 1
                        /\ RecordsOfNode(c, i)[1].assembly_no_children

\* C29 (amended): a failed fetch is not propagated and the assembly has no
\* children; the flattener treats it as it treats an assembly with an empty
\* BOM: below a Purchased Assy kept whole it is not emitted, a Purchased
\* Assy kept whole is emitted without the flag, and any other is emitted as
\* one leaf with assembly_no_children = true and max_depth_exceeded =
\* false; the same holds of every assembly whose fetched BOM is empty.
C29_FetchFailureAsEmptyBom ==
    \A c \in Calls :
        /\ OnlyCycleErrors(c)
        /\ \A i \in 1..Len(nodes[c]) :
              /\ nodes[c][i].bom_fetch_failed => FetchedChildless(c, i)
              /\ (Flattened(c) /\ FetchedChildless(c, i)) =>
                    IF BelowUnexpandedPurchased(c, i)
                    THEN RecordsOfNode(c, i) = <<>>
                    ELSE /\ Len(RecordsOfNode(c, i)) = 1
                         /\ RecordsOfNode(c, i)[1].assembly_no_children = ~KeptWhole(c, i)
                         /\ ~RecordsOfNode(c, i)[1].max_depth_exceeded

\* The fetch failed for a sub-assembly that has BOM lines in the database:
\* the call returns, the sub-assembly is a row flagged assembly_no_children.
C29_Witness ==
    /\ Returned(1) /\ error[1].kind = "none"
    /\ \E i \in 1..Len(nodes[1]) :
          /\ nodes[1][i].bom_fetch_failed
          /\ nodes[1][i].level = 1
          /\ nodes[1][i].part_type = "Assy"
          /\ SubParts(nodes[1][i].part_id) # {}
          /\ RecordsOfNode(1, i)[1].assembly_no_children
          /\ RowsOf(1, nodes[1][i].part_id)[1].assembly_no_children

\* The fetch failed for a Purchased Assy kept whole: emitted unflagged.
C29_WitnessKeptWhole ==
    /\ Returned(1) /\ error[1].kind = "none"
    /\ \E i \in 1..Len(nodes[1]) :
          /\ nodes[1][i].bom_fetch_failed
          /\ KeptWhole(1, i)
          /\ Len(RecordsOfNode(1, i)) = 1
          /\ ~RecordsOfNode(1, i)[1].assembly_no_children

\* ------------------------------------------------------------------ C30
\* A call of traverse_bom for part p at the given level, with the given
\* ancestors, meets a part that is its own ancestor at a level <= d, going
\* down only from levels below d.
RECURSIVE RevisitWithin(_, _, _, _)
RevisitWithin(p, ancestors, level, d) ==
    \/ p \in ancestors
    \/ /\ level < d
       /\ \E q \in SubParts(p) : RevisitWithin(q, ancestors \cup {p}, level + 1, d)

\* C30: with max_depth = d the cycle error is raised only for an ancestor
\* revisit at a level <= d, and it is raised when there is one; when every
\* revisit of the BOM would happen at a level greater than d no cycle is
\* reported and the call returns its depth-truncated tree.
C30_CycleWithinDepthOnly ==
    \A c \in Calls :
        (RootExists(c) /\ args[c].max_depth # NoneVal) =>
            /\ error[c].kind = "ValueError" => error[c].level <= args[c].max_depth
            /\ Returned(c) =>
                  IF RevisitWithin(args[c].part_id, {}, 0, args[c].max_depth)
                  THEN error[c].kind = "ValueError"
                  ELSE /\ error[c].kind = "none"
                       /\ bom_tree[c] # 0
                       /\ \A i \in TreeNodes(c) :
                             nodes[c][i].level <= args[c].max_depth

\* Lines 1->3 and 3->1 with max_depth 1: the revisit of part 1 would be at
\* level 2; the call returns the tree cut at part 3.
C30_Witness ==
    /\ Returned(1)
    /\ args[1].max_depth = 1
    /\ CycleReachable(args[1].part_id)
    /\ error[1].kind = "none"
    /\ bom_tree[1] # 0
    /\ \E i \in TreeNodes(1) : nodes[1][i].max_depth_exceeded
    /\ result[1][1] # <<>>

\* The same BOM with max_depth 2: the revisit is at level 2 and is reported.
C30_WitnessAtLimit ==
    /\ Returned(1)
    /\ args[1].max_depth = 2
    /\ error[1].kind = "ValueError"
    /\ error[1].level = 2

====
